---- MODULE Spec2Model ----
(***************************************************************************)
(* SIGET: a central coordinator (TrafficServer) and a traffic-light agent  *)
(* (TrafficLight).  The coordinator part models src/src/traffic_server.py  *)
(* thread by thread: one handler per accepted connection, the liveness     *)
(* monitor, the periodic-sync thread, the one-shot sync timers, an         *)
(* external caller of the public methods, and stop_server.  Time is the    *)
(* integer clock `now` (seconds); computation is instantaneous and time    *)
(* passes only when every thread is blocked or asleep.                     *)
(***************************************************************************)
EXTENDS Integers, Sequences, FiniteSets, TLC

\* ---------------------------------------------------------------- bounds
MaxMsgs == 3          \* inbound messages delivered to the coordinator (Spec)
MaxDispatch == 3      \* inbound messages delivered (SpecDispatch)
MaxOverrides == 1     \* calls of emergency_override (SpecEmergency)
MaxRegs == 2          \* inbound messages delivered (SpecEmergency)
MaxSyncMsgs == 2      \* inbound messages delivered (SpecSync)
MaxTriggers == 2      \* external calls of trigger_synchronization (SpecSync)
MaxTime == 80         \* the clock stops here
TickLen == 5          \* longest single advance of the clock
MaxCmds == 1          \* commands written to the agent (SpecAgent)
SliceStep == 10       \* dwell slices slept in one step (SpecAgent)
MaxChanges == 4       \* state changes after which the cycle stops (SpecCycle, SpecSystem)
MaxAgentChanges == 3  \* state changes after which the cycle stops (SpecAgent)
MaxLockMsgs == 2      \* inbound messages delivered (SpecLocks)
MaxLockCalls == 1     \* calls made by the external caller (SpecLocks)
MaxLockNames == 2     \* longest lock_names list passed to acquire_locks_in_order
MaxStatusMsgs == 4    \* inbound messages delivered (SpecStatus)
MaxStatusCalls == 1   \* emergency_override calls (SpecStatus)
MaxBadCmds == 2       \* commands written to the agent (SpecBadCommands)
MaxAcceptMsgs == 2    \* messages received by handlers (SpecAccept)
MaxStopChanges == 2   \* state changes before stop() (SpecStop)
MaxStopCmds == 1      \* commands written to the agent (SpecStop)
MaxShutdownMsgs == 2  \* messages received by handlers (SpecShutdown)
MaxStopTwiceMsgs == 1     \* registrations received (SpecStopTwice)
MaxStopTwiceChanges == 1  \* state changes of the agent (SpecStopTwice)
MaxCallChanges == 3   \* change_state calls that change the state (SpecGetStatus)
MaxModeMsgs == 2      \* messages received by the handler (SpecEmergencyMode)
MaxModeCalls == 1     \* emergency_override calls (SpecEmergencyMode)
MaxFanOutMsgs == 2    \* messages received by handlers (SpecFanOut)
MaxWindowMsgs == 2    \* messages received by the handler (SpecWindow)
MaxWindowCalls == 1   \* outside calls of trigger_synchronization (SpecWindow)
MaxOverrideCmds == 1   \* commands written to the agent (SpecOverride)
MaxOverrideChanges == 4 \* state changes of the agent (SpecOverride)
MaxFrameMsgs == 4      \* messages processed (SpecFrame)
MaxStateMsgs == 3      \* messages processed (SpecStates)
MaxHaltMsgs == 1       \* messages processed (SpecHalt)
MaxLightLockChanges == 2 \* state changes of the agent (SpecLightLocks)

\* ------------------------------------------------------ program constants
SYNC_STALENESS == 30       \* should_sync_clients: seconds since last_sync
SYNC_WINDOW == 5           \* threading.Timer(5.0, complete_synchronization)
PERIODIC_SLEEP == 30       \* periodic_sync: time.sleep(30)
MONITOR_SLEEP == 10        \* system_monitor: time.sleep(10)
MAX_SEMAPHORES == 5        \* config.py: permits of TrafficServer.sync_semaphore
HEARTBEAT_TIMEOUT == 60    \* system_monitor: seconds without heartbeat

None == "None"
Conns == {"c1", "c2"}                 \* accepted connections (socket handles)
IDs == {"A1", "A2"}                   \* light_id values agents send
Intersections == {"Centro", "Sur"}
EmptyName == ""
Workers == {"monitor", "periodic"}
Threads == Conns \cup Workers \cup {"ext", "stopper", "accept"}

\* resource_order of TrafficServer.__init__
resource_order == <<"system_lock", "clients_lock", "message_lock">>

\* inbound messages (agent -> coordinator)
RegisterMsgs ==
    {[type |-> "register", light_id |-> i, intersection |-> x, state |-> "RED"] :
        i \in IDs, x \in Intersections}
StateUpdateMsgs ==
    {[type |-> "state_update", light_id |-> i, intersection |-> None, state |-> s] :
        i \in IDs, s \in {"GREEN"}}
HeartbeatMsgs ==
    {[type |-> "heartbeat", light_id |-> i, intersection |-> None, state |-> None] :
        i \in IDs}
UnknownMsgs ==
    {[type |-> "status_query", light_id |-> i, intersection |-> None, state |-> None] :
        i \in IDs}
InboundMsgs == RegisterMsgs \cup StateUpdateMsgs \cup HeartbeatMsgs \cup UnknownMsgs
\* a light_id that is a JSON array: it cannot be a dictionary key, so
\* `client_id in self.clients` and `self.clients[client_id] = ...` raise TypeError
BadId == "unhashable"
BadIdMsgs ==
    {[type |-> t, light_id |-> BadId, intersection |-> "Centro", state |-> "RED"] :
        t \in {"register", "state_update", "heartbeat"}}

ClassifiedTypes == {"register", "state_update", "heartbeat"}

VARIABLES
    \* --- TrafficServer fields
    running,          \* self.running
    threadsStarted,   \* start_server has spawned the worker threads
    clients,          \* self.clients: id -> client_info
    client_sockets,   \* self.client_sockets: id -> socket
    system_state,     \* self.system_state
    stats,            \* self.stats
    clients_lock,     \* self.clients_lock (RLock): [owner, count]
    active_locks,     \* self.active_locks
    \* --- transport
    sock,             \* coordinator side of each connection: unused / open / closed
    peer,             \* the agent side of the connection is still open
    outbox,           \* messages the coordinator wrote on each connection
    \* --- threads
    pc,               \* position of every coordinator thread
    client_id,        \* handle_client local: client_id
    tmp,              \* value read by `stats['messages_processed'] += 1`
    inactive,         \* system_monitor local: inactive_clients
    wake,             \* wake-up time of the sleeping worker threads
    timers,           \* deadlines of the pending complete_synchronization timers
    call,             \* arguments of the external call in progress
    now,              \* time.time()
    server_sync_semaphore, \* TrafficServer.sync_semaphore: permits left
    \* --- history
    delivered,        \* number of inbound messages handed to handlers, by type
    callsMade,        \* number of external calls made
    regConn,          \* id -> connection of the latest register processed for it
    registeredIds,    \* ids for which a register was processed
    removedIds,       \* ids removed since their latest register
    evictedHandles,   \* handles of sessions the liveness monitor removed
    windowBroadcasts, \* sync_request broadcasts since the sync window last closed
    eoLast,           \* what the latest emergency_override call saw and sent
    \* --- one agent (TrafficLight)
    light_running,    \* TrafficLight.running
    connected,        \* TrafficLight.connected
    light_socket,     \* TrafficLight.socket: none / open / failed / closed
    current_state,    \* TrafficLight.current_state
    previous_state,   \* TrafficLight.previous_state
    state_changes,    \* TrafficLight.state_changes
    state_lock,       \* TrafficLight.state_lock: the thread holding it, or None
    communication_lock, \* TrafficLight.communication_lock: holder, or None
    sync_semaphore,   \* TrafficLight.sync_semaphore: permits left (0 or 1)
    inbox,            \* commands written by the coordinator, not yet read
    reports,          \* states of the state_update messages the agent has sent
    lpc,              \* position of the agent's threads and of the stop() caller
    command,          \* local `command` of each agent thread
    new_state,        \* argument of the change_state / send call in progress
    mode,             \* which caller the running change_state returns to
    state_idx,        \* position of the cycle's `for state in [...]`
    slices,           \* iterations left of the dwell loop
    \* --- history of the agent
    gate,             \* the thread that holds the permit of sync_semaphore
    held,             \* sleep(0.1) slices slept in the current dwell
    dwells,           \* for every report of the normal cycle, the slices slept before it
    cmdsDelivered,    \* number of commands the coordinator has written
    emAt,             \* the emergency_override delivered while dwelling in GREEN
    changeLog,        \* the states change_state has set, in order
    kinds,            \* for every report, what sent it: "change" or "sync"
    status_call,      \* the get_status call in progress and the dict it builds
    \* --- more history of the coordinator
    closes,           \* number of close() calls made on each connection's socket
    malformed,        \* connections on which undecodable bytes were received
    snapshot,         \* the latest result of get_system_status
    updatesSince      \* id -> state_update messages received for it while registered

srvVars == <<running, threadsStarted, clients, client_sockets, system_state, stats,
             clients_lock, active_locks, sock, peer, outbox, pc, client_id, tmp, inactive, wake, timers, call, now,
             server_sync_semaphore>>
histVars == <<delivered, callsMade, regConn, registeredIds, removedIds,
              evictedHandles, windowBroadcasts, eoLast>>
agentVars == <<light_running, connected, light_socket, current_state,
               previous_state, state_changes, state_lock, communication_lock,
               sync_semaphore, inbox, reports, lpc, command, new_state, mode,
               state_idx, slices, gate, held, dwells, cmdsDelivered, emAt,
               changeLog, kinds, status_call>>
auxVars == <<closes, malformed, snapshot, updatesSince>>
vars == <<srvVars, histVars, agentVars, auxVars>>

\* ---------------------------------------------------------------- helpers
EmptyMap == [x \in {} |-> None]
Put(f, k, v) == [x \in DOMAIN f \cup {k} |-> IF x = k THEN v ELSE f[x]]
Without(f, k) == [x \in DOMAIN f \ {k} |-> f[x]]
Min(a, b) == IF a <= b THEN a ELSE b
SetMin(S) == CHOOSE x \in S : \A y \in S : x <= y

\* a lock that excludes nobody
LockFreeForAnyone(t) == TRUE

\* RLock: free, or already held by the calling thread
LockFreeFor(t) == clients_lock.owner \in {None, t}

\* ------------------------------------------------- acquire_locks_in_order
\* a sort key that ranks every name alike
OrderIndexFlat(n) == 999

\* key=lambda x: self.resource_order.index(x) if x in self.resource_order else 999
OrderIndex(n) ==
    IF \E i \in DOMAIN resource_order : resource_order[i] = n
    THEN CHOOSE i \in DOMAIN resource_order : resource_order[i] = n
    ELSE 999

RECURSIVE InsertSorted(_, _)
InsertSorted(s, n) ==
    IF s = <<>> THEN <<n>>
    ELSE IF OrderIndex(n) < OrderIndex(Head(s)) THEN <<n>> \o s
    ELSE <<Head(s)>> \o InsertSorted(Tail(s), n)

RECURSIVE SortedLocks(_)
SortedLocks(lock_names) ==
    IF lock_names = <<>> THEN <<>>
    ELSE InsertSorted(SortedLocks(SubSeq(lock_names, 1, Len(lock_names) - 1)),
                      lock_names[Len(lock_names)])

IsClientsLock(n) == n = "clients_lock"
\* the list acquire_locks_in_order returns: only clients_lock is a real lock
AcquiredLocks(lock_names) == SelectSeq(SortedLocks(lock_names), IsClientsLock)

\* lock names a caller may pass; other_lock is not in resource_order
LockNames == {"system_lock", "clients_lock", "message_lock", "other_lock"}
LockRequests == UNION {[1..n -> LockNames] : n \in 0..MaxLockNames}

\* process_client_message: locks_to_acquire
LocksToAcquire(message_type) ==
    IF message_type = "state_update" THEN <<"clients_lock", "system_lock">>
    ELSE <<"clients_lock">>

\* ------------------------------------------------------------- transport
\* a message that does not carry the client id
OutMsgNoId(type, state, id) == [type |-> type, state |-> state, client_id |-> None]

\* the fields of an outbound message the model keeps
OutMsg(type, state, id) == [type |-> type, state |-> state, client_id |-> id]
Repeat(m, k) == [i \in 1..k |-> m]

\* send_to_client for every id of `ids`: one write per id on its stored socket;
\* an id without a stored socket is skipped, a write on a closed socket raises
\* and is swallowed
SendTo(ob, ids, m) ==
    [c \in Conns |->
        IF sock[c] = "open"
        THEN ob[c] \o Repeat(m, Cardinality({i \in ids \cap DOMAIN client_sockets :
                                                client_sockets[i] = c}))
        ELSE ob[c]]

\* broadcast_message
Broadcast(ob, m) == SendTo(ob, DOMAIN client_sockets, m)

\* ------------------------------------------------------------ the agent
LightThreads == {"cycle", "comm"}
\* TrafficLightState
TrafficLightState == {"RED", "YELLOW", "GREEN"}
\* a cycle that visits YELLOW before GREEN
CycleStatesSwapped == <<"RED", "YELLOW", "GREEN">>

\* for state in [TrafficLightState.RED, TrafficLightState.GREEN, TrafficLightState.YELLOW]
CycleStates == <<"RED", "GREEN", "YELLOW">>
\* config.STATE_DURATIONS
STATE_DURATIONS == [RED |-> 8, YELLOW |-> 3, GREEN |-> 10]
\* time.sleep(5) of handle_emergency_override is one step; it is not counted
\* the state names a command may carry; PURPLE is no TrafficLightState
CommandStates == {"RED", "PURPLE"}
\* receive_command_from_server returned None
NoCommand == [type |-> None, state |-> None]
Commands ==
    [type : {"sync_request"}, state : {None}]
        \cup [type : {"state_change", "emergency_override"}, state : CommandStates]

\* commands whose state is no TrafficLightState: an unknown name, or null
BadCommands ==
    [type : {"state_change", "emergency_override"}, state : {"PURPLE", None}]

\* get_state_duration that always answers its default
get_state_duration_default(state) == 5

\* get_state_duration
get_state_duration(state) == STATE_DURATIONS[state]

\* TrafficLight.__init__
LightInit ==
    /\ light_running = FALSE
    /\ connected = FALSE
    /\ light_socket = "none"
    /\ current_state = "RED"
    /\ previous_state = "RED"
    /\ state_changes = 0
    /\ state_lock = None
    /\ communication_lock = None
    /\ sync_semaphore = 1
    /\ inbox = <<>>
    /\ reports = <<>>
    /\ lpc = [t \in LightThreads \cup {"stop", "caller"} |-> "idle"]
    /\ command = [t \in LightThreads |-> NoCommand]
    /\ new_state = [t \in LightThreads \cup {"caller"} |-> None]
    /\ mode = [t \in LightThreads \cup {"caller"} |-> None]
    /\ state_idx = 1
    /\ slices = 0
    /\ gate = None
    /\ held = 0
    /\ dwells = <<>>
    /\ cmdsDelivered = 0
    /\ emAt = [set |-> FALSE, state |-> None, at |-> 0]
    /\ changeLog = <<>>
    /\ kinds = <<>>
    /\ status_call = [pc |-> "idle", state |-> None, state_changes |-> 0]

\* ------------------------------------------------------------------ Init
Init ==
    /\ running = FALSE
    /\ threadsStarted = FALSE
    /\ clients = EmptyMap
    /\ client_sockets = EmptyMap
    /\ system_state = [emergency_mode |-> FALSE, sync_in_progress |-> FALSE,
                       last_sync |-> 0, total_clients |-> 0]
    /\ stats = [messages_processed |-> 0, sync_operations |-> 0,
                emergency_overrides |-> 0, deadlock_preventions |-> 0]
    /\ clients_lock = [owner |-> None, count |-> 0]
    /\ active_locks = {}
    /\ sock = [c \in Conns |-> "unused"]
    /\ peer = [c \in Conns |-> FALSE]
    /\ outbox = [c \in Conns |-> <<>>]
    /\ pc = [t \in Threads |->
                IF t \in Workers THEN "new" ELSE "idle"]
    /\ client_id = [c \in Conns |-> None]
    /\ tmp = [c \in Conns |-> 0]
    /\ inactive = {}
    /\ wake = [w \in Workers |-> 0]
    /\ timers = <<>>
    /\ call = None
    /\ now = 0
    /\ server_sync_semaphore = MAX_SEMAPHORES
    /\ delivered = [classified |-> 0, other |-> 0, failed |-> 0]
    /\ callsMade = 0
    /\ regConn = [i \in IDs |-> None]
    /\ registeredIds = {}
    /\ removedIds = {}
    /\ evictedHandles = {}
    /\ windowBroadcasts = 0
    /\ LightInit
    /\ closes = [c \in Conns |-> 0]
    /\ malformed = {}
    /\ snapshot = [taken |-> FALSE, running |-> running, total_clients |-> 0,
                   clients |-> EmptyMap,
                   system_state |-> system_state, stats |-> stats,
                   active_locks |-> active_locks,
                   updates |-> [i \in IDs |-> 0], removed |-> {}]
    /\ updatesSince = [i \in IDs |-> 0]
    /\ eoLast = [sent |-> FALSE, target |-> None, sessions |-> EmptyMap,
                 open |-> {}, got |-> [c \in Conns |-> 0]]

\* ---------------------------------------------------------- start_server
StartServer ==
    /\ ~threadsStarted
    /\ pc["stopper"] = "idle"
    /\ running' = TRUE
    /\ threadsStarted' = TRUE
    /\ pc' = [pc EXCEPT !["monitor"] = "sleep", !["periodic"] = "sleep",
                         !["accept"] = "accepting"]
    /\ wake' = [wake EXCEPT !["monitor"] = now + MONITOR_SLEEP,
                            !["periodic"] = now + PERIODIC_SLEEP]
    /\ UNCHANGED <<agentVars, server_sync_semaphore, auxVars, clients, client_sockets, system_state, stats, clients_lock,
                   active_locks, sock, peer, outbox, client_id, tmp,
                   inactive, timers, call, now, histVars>>

\* accept_connections: one handle_client thread per accepted connection
Accept(c) ==
    /\ running
    /\ threadsStarted
    /\ pc["accept"] = "accepting"
    /\ pc[c] = "idle"
    /\ sock' = [sock EXCEPT ![c] = "open"]
    /\ peer' = [peer EXCEPT ![c] = TRUE]
    /\ pc' = [pc EXCEPT ![c] = "recv"]
    /\ UNCHANGED <<agentVars, server_sync_semaphore, auxVars, running, threadsStarted, clients, client_sockets, system_state,
                   stats, clients_lock, active_locks, outbox, client_id, tmp, inactive, wake, timers, call, now, histVars>>

\* ---------------------------------------------------------- handle_client
\* should_sync_clients
should_sync_clients ==
    IF system_state.sync_in_progress THEN FALSE
    ELSE (now - system_state.last_sync) > SYNC_STALENESS

\* a registration that leaves total_clients as it was
register_client_stale_total(c, m) ==
    LET id == m.light_id
        info == [intersection |-> m.intersection, state |-> m.state,
                 last_heartbeat |-> now, socket |-> c, state_changes |-> 0]
    IN  /\ clients' = Put(clients, id, info)
        /\ client_sockets' = Put(client_sockets, id, c)
        /\ UNCHANGED system_state
        /\ outbox' = [x \in Conns |->
                        IF x = c /\ sock[c] = "open"
                        THEN Append(outbox[x],
                                    OutMsg("registration_confirmed", None, id))
                        ELSE outbox[x]]
        /\ regConn' = [regConn EXCEPT ![id] = c]
        /\ registeredIds' = registeredIds \cup {id}
        /\ removedIds' = removedIds \ {id}
        /\ updatesSince' = [updatesSince EXCEPT ![id] = 0]
        /\ pc' = [pc EXCEPT ![c] = "count_read"]

\* register_client
register_client(c, m) ==
    LET id == m.light_id
        info == [intersection |-> m.intersection, state |-> m.state,
                 last_heartbeat |-> now, socket |-> c, state_changes |-> 0]
    IN  /\ clients' = Put(clients, id, info)
        /\ client_sockets' = Put(client_sockets, id, c)
        /\ system_state' = [system_state EXCEPT
                               !.total_clients = Cardinality(DOMAIN clients')]
        /\ outbox' = [x \in Conns |->
                        IF x = c /\ sock[c] = "open"
                        THEN Append(outbox[x],
                                    OutMsg("registration_confirmed", None, id))
                        ELSE outbox[x]]
        /\ regConn' = [regConn EXCEPT ![id] = c]
        /\ registeredIds' = registeredIds \cup {id}
        /\ removedIds' = removedIds \ {id}
        /\ updatesSince' = [updatesSince EXCEPT ![id] = 0]
        /\ pc' = [pc EXCEPT ![c] = "count_read"]

\* an update that does not count the state change
update_client_state_uncounted(c, m) ==
    LET id == m.light_id IN
    IF id \notin DOMAIN clients
    THEN /\ pc' = [pc EXCEPT ![c] = "count_read"]
         /\ UNCHANGED clients
    ELSE /\ clients' = [clients EXCEPT
                           ![id].state = m.state,
                           ![id].last_heartbeat = now]
         /\ pc' = [pc EXCEPT ![c] = IF should_sync_clients THEN "trig"
                                    ELSE "count_read"]

\* update_client_state, up to the decision to synchronize
update_client_state(c, m) ==
    LET id == m.light_id IN
    IF id \notin DOMAIN clients
    THEN /\ pc' = [pc EXCEPT ![c] = "count_read"]
         /\ UNCHANGED clients
    ELSE /\ clients' = [clients EXCEPT
                           ![id].state = m.state,
                           ![id].last_heartbeat = now,
                           ![id].state_changes = @ + 1]
         /\ pc' = [pc EXCEPT ![c] = IF should_sync_clients THEN "trig"
                                    ELSE "count_read"]

\* update_client_heartbeat
\* a heartbeat that is counted as a state change
update_client_heartbeat_counted(c, m) ==
    LET id == m.light_id IN
    /\ clients' = IF id \in DOMAIN clients
                  THEN [clients EXCEPT ![id].last_heartbeat = now,
                                       ![id].state_changes = @ + 1]
                  ELSE clients
    /\ pc' = [pc EXCEPT ![c] = "count_read"]

update_client_heartbeat(c, m) ==
    LET id == m.light_id IN
    /\ clients' = IF id \in DOMAIN clients
                  THEN [clients EXCEPT ![id].last_heartbeat = now]
                  ELSE clients
    /\ pc' = [pc EXCEPT ![c] = "count_read"]

\* handle_client: data = client_socket.recv(1024); message = json.loads(...);
\* client_id = message.get('light_id'); then process_client_message up to the
\* end of its if/elif/else: acquire_locks_in_order (the handler waits for
\* clients_lock) and the handler of the message type.  trigger_synchronization,
\* the messages_processed increment and release_locks are the steps after it.
\* With a light_id that cannot be hashed the handler of the type raises.
Process(c, m) ==
    /\ pc[c] = "recv"
    /\ peer[c]
    /\ sock[c] = "open"
    /\ LockFreeFor(c)
    /\ client_id' = [client_id EXCEPT ![c] = m.light_id]
    /\ delivered' = IF m.light_id = BadId /\ m.type \in ClassifiedTypes
                    THEN [delivered EXCEPT !.failed = @ + 1]
                    ELSE IF m.type \in ClassifiedTypes
                    THEN [delivered EXCEPT !.classified = @ + 1]
                    ELSE [delivered EXCEPT !.other = @ + 1]
    /\ LET got == AcquiredLocks(LocksToAcquire(m.type)) IN
        /\ clients_lock' = [owner |-> c, count |-> clients_lock.count + Len(got)]
        /\ active_locks' = active_locks \cup {got[i] : i \in DOMAIN got}
    /\ stats' = [stats EXCEPT !.deadlock_preventions = @ + 1]
    /\ \/ /\ m.type \in ClassifiedTypes
          /\ m.light_id = BadId
          /\ pc' = [pc EXCEPT ![c] = "raise"]
          /\ UNCHANGED <<clients, client_sockets, system_state, outbox, regConn,
                         registeredIds, removedIds, updatesSince>>
       \/ /\ m.type = "register"
          /\ m.light_id # BadId
          /\ register_client(c, m)
       \/ /\ m.type = "state_update"
          /\ m.light_id # BadId
          /\ update_client_state(c, m)
          /\ updatesSince' =
                IF m.light_id \in registeredIds \ removedIds
                THEN [updatesSince EXCEPT ![m.light_id] = @ + 1]
                ELSE updatesSince
          /\ UNCHANGED <<client_sockets, system_state, outbox, regConn,
                         registeredIds, removedIds>>
       \/ /\ m.type = "heartbeat"
          /\ m.light_id # BadId
          /\ update_client_heartbeat(c, m)
          /\ UNCHANGED <<client_sockets, system_state, outbox, regConn,
                         registeredIds, removedIds, updatesSince>>
       \/ /\ m.type \notin ClassifiedTypes
          /\ pc' = [pc EXCEPT ![c] = "count_read"]
          /\ UNCHANGED <<clients, client_sockets, system_state, outbox, regConn,
                         registeredIds, removedIds, updatesSince>>
    /\ UNCHANGED <<agentVars, server_sync_semaphore, closes, malformed, snapshot, running,
                   threadsStarted, sock, peer, tmp, inactive, wake, timers,
                   call, now, callsMade, evictedHandles, windowBroadcasts, eoLast>>

\* self.stats['messages_processed'] += 1 : the read ...
CountRead(c) ==
    /\ pc[c] = "count_read"
    /\ tmp' = [tmp EXCEPT ![c] = stats.messages_processed]
    /\ pc' = [pc EXCEPT ![c] = "count_write"]
    /\ UNCHANGED <<agentVars, server_sync_semaphore, auxVars, running, threadsStarted, clients, client_sockets, system_state,
                   stats, clients_lock, active_locks, sock, peer, outbox, client_id,
                   inactive, wake, timers, call, now, histVars>>

\* release_locks(lock_names)
release_locks(t, lock_names) ==
    /\ clients_lock' =
          IF Len(lock_names) = 0 \/ clients_lock.owner # t THEN clients_lock
          ELSE IF clients_lock.count <= Len(lock_names)
               THEN [owner |-> None, count |-> 0]
               ELSE [owner |-> t, count |-> clients_lock.count - Len(lock_names)]
    /\ active_locks' = active_locks \ {lock_names[i] : i \in DOMAIN lock_names}

\* ... and the write; finally: self.release_locks(acquired_locks); then the
\* handler's `while self.running`
CountWrite(c) ==
    /\ pc[c] = "count_write"
    /\ stats' = [stats EXCEPT !.messages_processed = tmp[c] + 1]
    /\ release_locks(c, <<"clients_lock">>)
    /\ tmp' = [tmp EXCEPT ![c] = 0]
    /\ pc' = [pc EXCEPT ![c] = IF running THEN "recv" ELSE "finally"]
    /\ UNCHANGED <<agentVars, server_sync_semaphore, auxVars, running, threadsStarted, clients, client_sockets, system_state,
                   sock, peer, outbox, client_id, inactive, wake, timers, call, now,
                   delivered, callsMade, regConn, registeredIds, removedIds,
                   evictedHandles, windowBroadcasts, eoLast>>

\* a handler whose error path skips the release
HandlerRaiseKeepsLock(c) ==
    /\ pc[c] = "raise"
    /\ pc' = [pc EXCEPT ![c] = "finally"]
    /\ UNCHANGED <<agentVars, server_sync_semaphore, auxVars, running, threadsStarted, clients, client_sockets,
                   system_state, stats, sock, peer, outbox, client_id, tmp,
                   inactive, wake, timers, call, now, histVars, clients_lock,
                   active_locks>>

\* the handler of the message type raised: `finally: self.release_locks(...)`
\* of process_client_message, then `except Exception` of handle_client
HandlerRaise(c) ==
    /\ pc[c] = "raise"
    /\ release_locks(c, <<"clients_lock">>)
    /\ pc' = [pc EXCEPT ![c] = "finally"]
    /\ UNCHANGED <<agentVars, server_sync_semaphore, auxVars, running, threadsStarted, clients, client_sockets,
                   system_state, stats, sock, peer, outbox, client_id, tmp,
                   inactive, wake, timers, call, now, histVars>>

\* the bytes received are not JSON: json.loads raises, `except Exception` logs,
\* and the handler goes to its finally block
RecvMalformed(c) ==
    /\ pc[c] = "recv"
    /\ peer[c]
    /\ sock[c] = "open"
    /\ malformed' = malformed \cup {c}
    /\ pc' = [pc EXCEPT ![c] = "finally"]
    /\ UNCHANGED <<agentVars, server_sync_semaphore, closes, snapshot, updatesSince, running,
                   threadsStarted, clients, client_sockets, system_state, stats,
                   clients_lock, active_locks, sock, peer, outbox, client_id, tmp,
                   inactive, wake, timers, call, now, histVars>>

\* recv returns no data because the agent closed its end, or raises because
\* stop_server closed the socket: the handler goes to its finally block
RecvEnd(c) ==
    /\ pc[c] = "recv"
    /\ peer' = [peer EXCEPT ![c] = IF sock[c] = "closed" THEN @ ELSE FALSE]
    /\ pc' = [pc EXCEPT ![c] = "finally"]
    /\ UNCHANGED <<agentVars, server_sync_semaphore, auxVars, running, threadsStarted, clients, client_sockets, system_state,
                   stats, clients_lock, active_locks, sock, outbox, client_id, tmp,
                   inactive, wake, timers, call, now, histVars>>

\* remove_client that forgets `del self.clients[client_id]`
remove_client_keeps_session(id) ==
    /\ clients' = clients
    /\ client_sockets' =
          IF id \in DOMAIN clients /\ id \in DOMAIN client_sockets
          THEN Without(client_sockets, id) ELSE client_sockets
    /\ system_state' =
          IF id \in DOMAIN clients
          THEN [system_state EXCEPT !.total_clients = Cardinality(DOMAIN clients')]
          ELSE system_state
    /\ removedIds' = IF id \in DOMAIN clients THEN removedIds \cup {id}
                     ELSE removedIds
    /\ updatesSince' = IF id \in DOMAIN clients
                       THEN [updatesSince EXCEPT ![id] = 0] ELSE updatesSince

\* remove_client, run atomically under clients_lock
remove_client(id) ==
    /\ clients' = IF id \in DOMAIN clients THEN Without(clients, id) ELSE clients
    /\ client_sockets' =
          IF id \in DOMAIN clients /\ id \in DOMAIN client_sockets
          THEN Without(client_sockets, id) ELSE client_sockets
    /\ system_state' =
          IF id \in DOMAIN clients
          THEN [system_state EXCEPT !.total_clients = Cardinality(DOMAIN clients')]
          ELSE system_state
    /\ removedIds' = IF id \in DOMAIN clients THEN removedIds \cup {id}
                     ELSE removedIds
    /\ updatesSince' = IF id \in DOMAIN clients
                       THEN [updatesSince EXCEPT ![id] = 0] ELSE updatesSince

\* finally: if client_id: self.remove_client(client_id).  With a client_id
\* that cannot be hashed remove_client raises inside `with self.clients_lock`
\* and the thread ends before client_socket.close()
Finally(c) ==
    /\ pc[c] = "finally"
    /\ IF client_id[c] \notin {None, BadId}
       THEN /\ LockFreeFor(c)
            /\ remove_client(client_id[c])
       ELSE /\ client_id[c] = BadId => LockFreeFor(c)
            /\ UNCHANGED <<clients, client_sockets, system_state, removedIds,
                           updatesSince>>
    /\ pc' = [pc EXCEPT ![c] = IF client_id[c] = BadId THEN "done" ELSE "close"]
    /\ UNCHANGED <<agentVars, server_sync_semaphore, closes, malformed, snapshot, running,
                   threadsStarted, stats, clients_lock, active_locks, sock,
                   peer, outbox, client_id, tmp, inactive, wake, timers, call, now,
                   delivered, callsMade, regConn, registeredIds, evictedHandles,
                   windowBroadcasts, eoLast>>

\* finally: client_socket.close()
Close(c) ==
    /\ pc[c] = "close"
    /\ sock' = [sock EXCEPT ![c] = "closed"]
    /\ closes' = [closes EXCEPT ![c] = @ + 1]
    /\ pc' = [pc EXCEPT ![c] = "done"]
    /\ UNCHANGED <<agentVars, server_sync_semaphore, malformed, snapshot, updatesSince, running, threadsStarted, clients, client_sockets, system_state,
                   stats, clients_lock, active_locks, peer, outbox, client_id, tmp,
                   inactive, wake, timers, call, now, histVars>>

\* ------------------------------------------------ trigger_synchronization
\* threads that can be inside trigger_synchronization
Triggerers == Conns \cup {"periodic", "ext"}

\* where thread t continues once trigger_synchronization (or the periodic
\* loop body) has returned
Return(t) ==
    /\ pc' = [pc EXCEPT ![t] =
                IF t \in Conns THEN "count_read"
                ELSE IF t = "ext" THEN "idle"
                ELSE IF running THEN "sleep" ELSE "done"]
    /\ wake' = IF t = "periodic"
               THEN [wake EXCEPT ![t] = now + PERIODIC_SLEEP]
               ELSE wake

\* if self.system_state['sync_in_progress']: return
TrigCheck(t) ==
    /\ pc[t] = "trig"
    /\ IF system_state.sync_in_progress
       THEN Return(t)
       ELSE /\ pc' = [pc EXCEPT ![t] = "trig_set"]
            /\ UNCHANGED wake
    /\ UNCHANGED <<agentVars, server_sync_semaphore, auxVars, running, threadsStarted, clients, client_sockets, system_state,
                   stats, clients_lock, active_locks, sock, peer, outbox, client_id,
                   tmp, inactive, timers, call, now, histVars>>

\* sync_in_progress = True; last_sync = time.time(); sync_operations += 1
TrigSet(t) ==
    /\ pc[t] = "trig_set"
    /\ system_state' = [system_state EXCEPT !.sync_in_progress = TRUE,
                                            !.last_sync = now]
    /\ stats' = [stats EXCEPT !.sync_operations = @ + 1]
    /\ pc' = [pc EXCEPT ![t] = "trig_bcast"]
    /\ UNCHANGED <<agentVars, server_sync_semaphore, auxVars, running, threadsStarted, clients, client_sockets, clients_lock,
                   active_locks, sock, peer, outbox, client_id, tmp,
                   inactive, wake, timers, call, now, histVars>>

\* a broadcast that starts no completion timer
TrigBroadcastNoTimer(t) ==
    /\ pc[t] = "trig_bcast"
    /\ LockFreeFor(t)
    /\ outbox' = Broadcast(outbox, OutMsg("sync_request", None, None))
    /\ timers' = timers
    /\ windowBroadcasts' = windowBroadcasts + 1
    /\ Return(t)
    /\ UNCHANGED <<agentVars, server_sync_semaphore, auxVars, running, threadsStarted, clients, client_sockets, system_state,
                   stats, clients_lock, active_locks, sock, peer, client_id, tmp, inactive, call, now, delivered, callsMade, regConn,
                   registeredIds, removedIds, evictedHandles, eoLast>>

\* self.broadcast_message(sync_message);
\* threading.Timer(5.0, self.complete_synchronization).start()
TrigBroadcast(t) ==
    /\ pc[t] = "trig_bcast"
    /\ LockFreeFor(t)
    /\ outbox' = Broadcast(outbox, OutMsg("sync_request", None, None))
    /\ timers' = Append(timers, now + SYNC_WINDOW)
    /\ windowBroadcasts' = windowBroadcasts + 1
    /\ Return(t)
    /\ UNCHANGED <<agentVars, server_sync_semaphore, auxVars, running, threadsStarted, clients, client_sockets, system_state,
                   stats, clients_lock, active_locks, sock, peer, client_id, tmp, inactive, call, now, delivered, callsMade, regConn,
                   registeredIds, removedIds, evictedHandles, eoLast>>

\* a sync completion that also leaves emergency mode
TimerFireClearsEmergency(i) ==
    /\ i \in DOMAIN timers
    /\ timers[i] <= now
    /\ system_state' = [system_state EXCEPT !.sync_in_progress = FALSE,
                                          !.emergency_mode = FALSE]
    /\ timers' = [j \in 1..(Len(timers) - 1) |->
                    IF j < i THEN timers[j] ELSE timers[j + 1]]
    /\ windowBroadcasts' = 0
    /\ UNCHANGED <<agentVars, server_sync_semaphore, auxVars, running, threadsStarted, clients, client_sockets, stats,
                   clients_lock, active_locks, sock, peer, outbox, pc, client_id,
                   tmp, inactive, wake, call, now, delivered,
                   callsMade, regConn, registeredIds, removedIds, evictedHandles,
                   eoLast>>

\* complete_synchronization, run by a timer thread at its deadline
TimerFire(i) ==
    /\ i \in DOMAIN timers
    /\ timers[i] <= now
    /\ system_state' = [system_state EXCEPT !.sync_in_progress = FALSE]
    /\ timers' = [j \in 1..(Len(timers) - 1) |->
                    IF j < i THEN timers[j] ELSE timers[j + 1]]
    /\ windowBroadcasts' = 0
    /\ UNCHANGED <<agentVars, server_sync_semaphore, auxVars, running, threadsStarted, clients, client_sockets, stats,
                   clients_lock, active_locks, sock, peer, outbox, pc, client_id,
                   tmp, inactive, wake, call, now, delivered,
                   callsMade, regConn, registeredIds, removedIds, evictedHandles,
                   eoLast>>

\* ----------------------------------------------------------- periodic_sync
\* time.sleep(30) is over: if self.should_sync_clients(): trigger_synchronization()
PeriodicWake ==
    /\ pc["periodic"] = "sleep"
    /\ wake["periodic"] <= now
    /\ IF should_sync_clients
       THEN /\ pc' = [pc EXCEPT !["periodic"] = "trig"]
            /\ UNCHANGED wake
       ELSE Return("periodic")
    /\ UNCHANGED <<agentVars, server_sync_semaphore, auxVars, running, threadsStarted, clients, client_sockets, system_state,
                   stats, clients_lock, active_locks, sock, peer, outbox, client_id,
                   tmp, inactive, timers, call, now, histVars>>

\* ---------------------------------------------------------- system_monitor
\* a staleness test with the wrong threshold
IsInactiveLate(info) == now - info.last_heartbeat > 90

\* system_monitor: current_time - client_info['last_heartbeat'] > 60
IsInactive(info) == now - info.last_heartbeat > HEARTBEAT_TIMEOUT

\* time.sleep(10) is over: the scan under clients_lock
MonitorScan ==
    /\ pc["monitor"] = "sleep"
    /\ wake["monitor"] <= now
    /\ LockFreeFor("monitor")
    /\ inactive' = {i \in DOMAIN clients : IsInactive(clients[i])}
    /\ pc' = [pc EXCEPT !["monitor"] = "remove"]
    /\ UNCHANGED <<agentVars, server_sync_semaphore, auxVars, running, threadsStarted, clients, client_sockets, system_state,
                   stats, clients_lock, active_locks, sock, peer, outbox, client_id,
                   tmp, wake, timers, call, now, histVars>>

\* for client_id in inactive_clients: self.remove_client(client_id)
MonitorRemove(i) ==
    /\ pc["monitor"] = "remove"
    /\ i \in inactive
    /\ LockFreeFor("monitor")
    /\ remove_client(i)
    /\ evictedHandles' = IF i \in DOMAIN clients
                         THEN evictedHandles \cup {clients[i].socket}
                         ELSE evictedHandles
    /\ inactive' = inactive \ {i}
    /\ UNCHANGED <<agentVars, server_sync_semaphore, closes, malformed, snapshot, running,
                   threadsStarted, stats, clients_lock, active_locks, sock,
                   peer, outbox, pc, client_id, tmp, wake, timers,
                   call, now, delivered, callsMade, regConn, registeredIds,
                   windowBroadcasts, eoLast>>

\* self.log_system_stats(), then `while self.running`
MonitorLoop ==
    /\ pc["monitor"] = "remove"
    /\ inactive = {}
    /\ LockFreeFor("monitor")
    /\ pc' = [pc EXCEPT !["monitor"] = IF running THEN "sleep" ELSE "done"]
    /\ wake' = [wake EXCEPT !["monitor"] = now + MONITOR_SLEEP]
    /\ UNCHANGED <<agentVars, server_sync_semaphore, auxVars, running, threadsStarted, clients, client_sockets, system_state,
                   stats, clients_lock, active_locks, sock, peer, outbox, client_id,
                   tmp, inactive, timers, call, now, histVars>>

\* ------------------------------------------------------- external callers
\* an external caller (the operator's console) calls trigger_synchronization
ExtTrigger ==
    /\ pc["ext"] = "idle"
    /\ callsMade' = callsMade + 1
    /\ pc' = [pc EXCEPT !["ext"] = "trig"]
    /\ UNCHANGED <<agentVars, server_sync_semaphore, auxVars, running, threadsStarted, clients, client_sockets, system_state,
                   stats, clients_lock, active_locks, sock, peer, outbox, client_id,
                   tmp, inactive, wake, timers, call, now, delivered,
                   regConn, registeredIds, removedIds, evictedHandles,
                   windowBroadcasts, eoLast>>

Targets == Intersections \cup {None, EmptyName}
\* Python truth value of target_intersection
Truthy(target) == target # None /\ target # EmptyName

\* an override that ignores its target
EmergencyRecipientsAll(target) == DOMAIN client_sockets

\* the sessions emergency_override writes to
EmergencyRecipients(target) ==
    IF Truthy(target)
    THEN {i \in DOMAIN clients : clients[i].intersection = target}
    ELSE DOMAIN client_sockets

\* emergency_override: self.system_state['emergency_mode'] = True (no lock held)
EmergencyOverride(target, emergency_state) ==
    /\ pc["ext"] = "idle"
    /\ callsMade' = callsMade + 1
    /\ system_state' = [system_state EXCEPT !.emergency_mode = TRUE]
    /\ call' = [target |-> target, state |-> emergency_state]
    /\ pc' = [pc EXCEPT !["ext"] = "em_count"]
    /\ UNCHANGED <<agentVars, server_sync_semaphore, auxVars, running, threadsStarted, clients, client_sockets, clients_lock,
                   active_locks, sock, peer, outbox, client_id, tmp, stats,
                   inactive, wake, timers, now, delivered, regConn, registeredIds,
                   removedIds, evictedHandles, windowBroadcasts, eoLast>>

\* emergency_override: self.stats['emergency_overrides'] += 1 (no lock held)
EmergencyCount ==
    /\ pc["ext"] = "em_count"
    /\ stats' = [stats EXCEPT !.emergency_overrides = @ + 1]
    /\ pc' = [pc EXCEPT !["ext"] = "em_send"]
    /\ UNCHANGED <<agentVars, server_sync_semaphore, auxVars, running, threadsStarted, clients, client_sockets, clients_lock,
                   active_locks, sock, peer, outbox, client_id, tmp, system_state,
                   inactive, wake, timers, now, call, histVars>>

\* emergency_override: the scoped or unscoped send, under clients_lock
EmergencySend ==
    /\ pc["ext"] = "em_send"
    /\ LockFreeFor("ext")
    /\ outbox' = SendTo(outbox, EmergencyRecipients(call.target),
                        OutMsg("emergency_override", call.state, None))
    /\ eoLast' = [sent |-> TRUE, target |-> call.target,
                  sessions |-> [i \in DOMAIN clients |->
                                  [intersection |-> clients[i].intersection,
                                   socket |-> clients[i].socket]],
                  open |-> {c \in Conns : sock[c] = "open"},
                  got |-> [c \in Conns |-> Len(outbox'[c]) - Len(outbox[c])]]
    /\ call' = None
    /\ pc' = [pc EXCEPT !["ext"] = "idle"]
    /\ UNCHANGED <<agentVars, server_sync_semaphore, auxVars, running, threadsStarted, clients, client_sockets, system_state,
                   stats, clients_lock, active_locks, sock, peer, client_id, tmp, inactive, wake, timers, now, delivered, callsMade,
                   regConn, registeredIds, removedIds, evictedHandles,
                   windowBroadcasts>>

\* a caller outside the server threads calls acquire_locks_in_order(lock_names)
\* (it waits for clients_lock when the list names it) ...
ExtAcquire(lock_names) ==
    /\ pc["ext"] = "idle"
    /\ LET got == AcquiredLocks(lock_names) IN
        /\ Len(got) > 0 => LockFreeFor("ext")
        /\ clients_lock' = IF Len(got) > 0
                           THEN [owner |-> "ext",
                                 count |-> clients_lock.count + Len(got)]
                           ELSE clients_lock
        /\ active_locks' = active_locks \cup {got[i] : i \in DOMAIN got}
        /\ call' = [lock_names |-> lock_names,
                    sorted_locks |-> SortedLocks(lock_names),
                    acquired_locks |-> got]
    /\ stats' = [stats EXCEPT !.deadlock_preventions = @ + 1]
    /\ callsMade' = callsMade + 1
    /\ pc' = [pc EXCEPT !["ext"] = "holding"]
    /\ UNCHANGED <<agentVars, server_sync_semaphore, auxVars, running, threadsStarted, clients, client_sockets,
                   system_state, sock, peer, outbox, client_id, tmp, inactive,
                   wake, timers, now, delivered, regConn, registeredIds,
                   removedIds, evictedHandles, windowBroadcasts, eoLast>>

\* ... and then release_locks(acquired_locks)
ExtRelease ==
    /\ pc["ext"] = "holding"
    /\ release_locks("ext", call.acquired_locks)
    /\ call' = None
    /\ pc' = [pc EXCEPT !["ext"] = "idle"]
    /\ UNCHANGED <<agentVars, server_sync_semaphore, auxVars, running, threadsStarted, clients, client_sockets,
                   system_state, stats, sock, peer, outbox, client_id, tmp,
                   inactive, wake, timers, now, histVars>>

\* get_system_status, called by a thread of its own (the console): the copy
\* made under clients_lock
get_system_status ==
    /\ clients_lock.owner = None
    /\ snapshot' = [taken |-> TRUE,
                    running |-> running,
                    total_clients |-> Cardinality(DOMAIN clients),
                    clients |-> [i \in DOMAIN clients |->
                                   [intersection |-> clients[i].intersection,
                                    state |-> clients[i].state,
                                    last_heartbeat |-> clients[i].last_heartbeat,
                                    state_changes |-> clients[i].state_changes]],
                    system_state |-> system_state,
                    stats |-> stats,
                    active_locks |-> active_locks,
                    updates |-> updatesSince,
                    removed |-> removedIds]
    /\ UNCHANGED <<agentVars, server_sync_semaphore, closes, malformed, updatesSince, srvVars, histVars>>

\* ------------------------------------------------------------ stop_server
\* self.running = False
\* accept_connections: accept() raises while the server is running; the
\* except block logs the error and breaks out of the accept loop.
AcceptFail ==
    /\ running
    /\ pc["accept"] = "accepting"
    /\ pc' = [pc EXCEPT !["accept"] = "done"]
    /\ UNCHANGED <<agentVars, server_sync_semaphore, auxVars, running, threadsStarted, clients, client_sockets, system_state,
                   stats, clients_lock, active_locks, sock, peer, outbox, client_id, tmp, inactive, wake, timers, call, now, histVars>>

StopServer ==
    /\ pc["stopper"] = "idle"
    /\ running' = FALSE
    /\ pc' = [pc EXCEPT !["stopper"] = "closing"]
    /\ UNCHANGED <<agentVars, server_sync_semaphore, auxVars, threadsStarted, clients, client_sockets, system_state, stats,
                   clients_lock, active_locks, sock, peer, outbox, client_id, tmp, inactive, wake, timers, call, now, histVars>>

\* with self.clients_lock: close every socket of client_sockets; then the
\* listening socket; then join each thread for at most 2 seconds
StopCloseFrom(from, to) ==
    /\ pc["stopper"] = from
    /\ LockFreeFor("stopper")
    /\ sock' = [c \in Conns |->
                  IF \E i \in DOMAIN client_sockets : client_sockets[i] = c
                  THEN "closed" ELSE sock[c]]
    /\ closes' = [c \in Conns |->
                    closes[c] + Cardinality({i \in DOMAIN client_sockets :
                                                client_sockets[i] = c})]
    /\ pc' = [pc EXCEPT !["stopper"] = to,
                         !["accept"] = IF @ = "accepting" THEN "done" ELSE @]
    /\ UNCHANGED <<agentVars, server_sync_semaphore, malformed, snapshot, updatesSince, running, threadsStarted, clients, client_sockets, system_state,
                   stats, clients_lock, active_locks, peer, outbox, client_id, tmp, inactive, wake, timers, call, now, histVars>>

StopClose == StopCloseFrom("closing", "done")

\* stop_server called again by the same caller once its first call returned
StopServerAgain ==
    /\ pc["stopper"] = "done"
    /\ running' = FALSE
    /\ pc' = [pc EXCEPT !["stopper"] = "closing_again"]
    /\ UNCHANGED <<agentVars, server_sync_semaphore, auxVars, threadsStarted, clients, client_sockets, system_state, stats,
                   clients_lock, active_locks, sock, peer, outbox, client_id, tmp, inactive, wake, timers, call, now, histVars>>

StopCloseAgain == StopCloseFrom("closing_again", "done_again")

\* ------------------------------------------------------------------ time
\* every thread is blocked in recv, asleep before its wake-up time, or gone
Quiescent ==
    /\ \A c \in Conns : pc[c] \in {"idle", "done"} \/ pc[c] = "recv"
    /\ \A w \in Workers : pc[w] \in {"new", "done"}
                          \/ (pc[w] = "sleep" /\ wake[w] > now)
    /\ pc["ext"] = "idle"
    /\ pc["stopper"] \in {"idle", "done"}
    /\ \A i \in DOMAIN timers : timers[i] > now

Deadlines ==
    {wake[w] : w \in {x \in Workers : pc[x] = "sleep"}}
    \cup {timers[i] : i \in DOMAIN timers}

\* the clock advances by at most `step`, and never past a wake-up or a deadline
Tick(step) ==
    /\ threadsStarted
    /\ Quiescent
    /\ now < MaxTime
    /\ now' = SetMin({now + step, MaxTime} \cup Deadlines)
    /\ UNCHANGED <<agentVars, server_sync_semaphore, auxVars, running, threadsStarted, clients, client_sockets, system_state,
                   stats, clients_lock, active_locks, sock, peer, outbox, pc,
                   client_id, tmp, inactive, wake, timers, call,
                   histVars>>

\* ====================================================== the agent's steps
\* start(): running = True; connect_to_server (ok or not); spawn both threads
LightStart(ok) ==
    /\ ~light_running
    /\ \A t \in LightThreads : lpc[t] = "idle"
    /\ communication_lock = None
    /\ light_running' = TRUE
    /\ IF ok
       THEN /\ connected' = TRUE
            /\ light_socket' = "open"
            /\ lpc' = [t \in DOMAIN lpc |-> IF t \in LightThreads THEN "top" ELSE lpc[t]]
       ELSE /\ light_socket' = "failed"
            /\ UNCHANGED <<connected, lpc>>
    /\ UNCHANGED <<srvVars, histVars, auxVars, status_call, changeLog, kinds, current_state, previous_state, state_changes,
                   state_lock, communication_lock, sync_semaphore, inbox, reports,
                   command, new_state, mode, state_idx, slices, gate, held, dwells,
                   cmdsDelivered, emAt>>

\* stop(): running = False (the joins give up after 2 seconds each)
LightStop ==
    /\ lpc["stop"] = "idle"
    /\ light_running' = FALSE
    /\ lpc' = [lpc EXCEPT !["stop"] = "disconnect"]
    /\ UNCHANGED <<srvVars, histVars, auxVars, status_call, changeLog, kinds, connected, light_socket, current_state,
                   previous_state, state_changes, state_lock, communication_lock,
                   sync_semaphore, inbox, reports, command, new_state, mode,
                   state_idx, slices, gate, held, dwells, cmdsDelivered, emAt>>

\* a disconnect that closes the socket and leaves the connected flag alone
LightDisconnectKeepsFlag ==
    /\ lpc["stop"] = "disconnect"
    /\ communication_lock = None
    /\ IF light_socket # "none"
       THEN light_socket' = "closed" /\ UNCHANGED connected
       ELSE UNCHANGED <<light_socket, connected>>
    /\ lpc' = [lpc EXCEPT !["stop"] = "idle"]
    /\ UNCHANGED <<srvVars, histVars, auxVars, status_call, changeLog, kinds, light_running, current_state,
                   previous_state, state_changes, state_lock, communication_lock,
                   sync_semaphore, inbox, reports, command, new_state, mode,
                   state_idx, slices, gate, held, dwells, cmdsDelivered, emAt>>

\* disconnect_from_server, under communication_lock
LightDisconnect ==
    /\ lpc["stop"] = "disconnect"
    /\ communication_lock = None
    /\ IF light_socket # "none"
       THEN light_socket' = "closed" /\ connected' = FALSE
       ELSE UNCHANGED <<light_socket, connected>>
    /\ lpc' = [lpc EXCEPT !["stop"] = "idle"]
    /\ UNCHANGED <<srvVars, histVars, auxVars, status_call, changeLog, kinds, light_running, current_state,
                   previous_state, state_changes, state_lock, communication_lock,
                   sync_semaphore, inbox, reports, command, new_state, mode,
                   state_idx, slices, gate, held, dwells, cmdsDelivered, emAt>>

\* the coordinator's send_to_client writes a command on the agent's connection
DeliverCommand(cmd) ==
    /\ connected
    /\ light_socket = "open"
    /\ inbox' = Append(inbox, cmd)
    /\ cmdsDelivered' = cmdsDelivered + 1
    /\ emAt' = IF /\ ~emAt.set
                  /\ cmd.type = "emergency_override"
                  /\ cmd.state \in TrafficLightState
                  /\ light_running
                  /\ lpc["cycle"] = "dwell"
                  /\ state_idx = 2
                  /\ current_state = "GREEN"
               THEN [set |-> TRUE, state |-> cmd.state, at |-> Len(reports)]
               ELSE emAt
    /\ UNCHANGED <<srvVars, histVars, auxVars, status_call, changeLog, kinds, light_running, connected, light_socket,
                   current_state, previous_state, state_changes, state_lock,
                   communication_lock, sync_semaphore, reports, lpc, command,
                   new_state, mode, state_idx, slices, gate, held, dwells>>

\* where a thread goes with what receive_command_from_server returned
AfterRecv(t, cmd) ==
    IF t = "cycle"
    THEN IF cmd.type = "emergency_override" THEN "emergency" ELSE "for"
    ELSE IF cmd # NoCommand THEN "handle" ELSE "comm_sleep"

\* receive_command_from_server: take communication_lock; not connected: None
RecvBegin(t) ==
    /\ lpc[t] = "recv"
    /\ communication_lock = None
    /\ IF connected
       THEN /\ communication_lock' = t
            /\ lpc' = [lpc EXCEPT ![t] = "recv_wait"]
            /\ UNCHANGED <<command, state_idx>>
       ELSE /\ command' = [command EXCEPT ![t] = NoCommand]
            /\ lpc' = [lpc EXCEPT ![t] = AfterRecv(t, NoCommand)]
            /\ state_idx' = IF t = "cycle" THEN 1 ELSE state_idx
            /\ UNCHANGED communication_lock
    /\ UNCHANGED <<srvVars, histVars, auxVars, status_call, changeLog, kinds, light_running, connected, light_socket,
                   current_state, previous_state, state_changes, state_lock,
                   sync_semaphore, inbox, reports, new_state, mode, slices, gate,
                   held, dwells, cmdsDelivered, emAt>>

\* what socket.recv(1024) followed by json.loads yields: nothing within the
\* 1 second timeout, the one command waiting, or, when several commands wait,
\* their concatenation, which json.loads rejects
Received(buffer) == IF Len(buffer) = 1 THEN buffer[1] ELSE NoCommand

\* a receive that waits for state_lock before it returns, communication_lock
\* still held
RecvReturnUnderStateLock(t) ==
    /\ lpc[t] = "recv_wait"
    /\ state_lock = None
    /\ command' = [command EXCEPT ![t] = Received(inbox)]
    /\ inbox' = <<>>
    /\ communication_lock' = None
    /\ lpc' = [lpc EXCEPT ![t] = AfterRecv(t, Received(inbox))]
    /\ state_idx' = IF t = "cycle" THEN 1 ELSE state_idx
    /\ UNCHANGED <<srvVars, histVars, auxVars, status_call, changeLog, kinds, light_running, connected, light_socket,
                   current_state, previous_state, state_changes, state_lock,
                   sync_semaphore, reports, new_state, mode, slices, gate, held,
                   dwells, cmdsDelivered, emAt>>

\* receive_command_from_server: recv returns or times out; release the lock
RecvReturn(t) ==
    /\ lpc[t] = "recv_wait"
    /\ command' = [command EXCEPT ![t] = Received(inbox)]
    /\ inbox' = <<>>
    /\ communication_lock' = None
    /\ lpc' = [lpc EXCEPT ![t] = AfterRecv(t, Received(inbox))]
    /\ state_idx' = IF t = "cycle" THEN 1 ELSE state_idx
    /\ UNCHANGED <<srvVars, histVars, auxVars, status_call, changeLog, kinds, light_running, connected, light_socket,
                   current_state, previous_state, state_changes, state_lock,
                   sync_semaphore, reports, new_state, mode, slices, gate, held,
                   dwells, cmdsDelivered, emAt>>

\* a loop that never polls the running flag
LoopTopNoPoll(t) ==
    /\ lpc[t] = "top"
    /\ lpc' = [lpc EXCEPT ![t] = "recv"]
    /\ UNCHANGED <<srvVars, histVars, auxVars, status_call, changeLog, kinds, light_running, connected, light_socket,
                   current_state, previous_state, state_changes, state_lock,
                   communication_lock, sync_semaphore, inbox, reports, command,
                   new_state, mode, state_idx, slices, gate, held, dwells,
                   cmdsDelivered, emAt>>

\* `while self.running:` of either loop
LoopTop(t) ==
    /\ lpc[t] = "top"
    /\ lpc' = [lpc EXCEPT ![t] = IF light_running THEN "recv" ELSE "done"]
    /\ UNCHANGED <<srvVars, histVars, auxVars, status_call, changeLog, kinds, light_running, connected, light_socket,
                   current_state, previous_state, state_changes, state_lock,
                   communication_lock, sync_semaphore, inbox, reports, command,
                   new_state, mode, state_idx, slices, gate, held, dwells,
                   cmdsDelivered, emAt>>

\* traffic_light_cycle: one turn of `for state in [RED, GREEN, YELLOW]`:
\* leave the loop, or take the permit of sync_semaphore and call change_state
CycleFor ==
    /\ lpc["cycle"] = "for"
    /\ IF state_idx > Len(CycleStates) \/ ~light_running
       THEN /\ lpc' = [lpc EXCEPT !["cycle"] = "top"]
            /\ UNCHANGED <<sync_semaphore, gate, new_state, mode>>
       ELSE /\ sync_semaphore > 0
            /\ sync_semaphore' = sync_semaphore - 1
            /\ gate' = "cycle"
            /\ new_state' = [new_state EXCEPT !["cycle"] = CycleStates[state_idx]]
            /\ mode' = [mode EXCEPT !["cycle"] = "cycle"]
            /\ lpc' = [lpc EXCEPT !["cycle"] = "cs_enter"]
    /\ UNCHANGED <<srvVars, histVars, auxVars, status_call, changeLog, kinds, light_running, connected, light_socket,
                   current_state, previous_state, state_changes, state_lock,
                   communication_lock, inbox, reports, command, state_idx, slices,
                   held, dwells, cmdsDelivered, emAt>>

\* where change_state returns to
AfterChange(t) ==
    CASE mode[t] = "cycle" -> "dwell"
      [] mode[t] = "emergency" -> "em_sleep"
      [] mode[t] = "call" -> "idle"
      [] OTHER -> "comm_sleep"

\* duration = get_state_duration(state); range(duration * 10)
DwellSlices(t) ==
    IF mode[t] = "cycle" THEN get_state_duration(new_state[t]) * 10 ELSE slices

\* change_state: take state_lock; if the state differs, set previous_state,
\* current_state and state_changes
change_state(t) ==
    /\ lpc[t] = "cs_enter"
    /\ state_lock = None
    /\ IF current_state # new_state[t]
       THEN /\ previous_state' = current_state
            /\ current_state' = new_state[t]
            /\ state_changes' = state_changes + 1
            /\ changeLog' = Append(changeLog, new_state[t])
            /\ state_lock' = t
            /\ lpc' = [lpc EXCEPT ![t] = "cs_send"]
            /\ UNCHANGED <<slices, held>>
       ELSE /\ lpc' = [lpc EXCEPT ![t] = AfterChange(t)]
            /\ slices' = DwellSlices(t)
            /\ held' = IF mode[t] = "cycle" THEN 0 ELSE held
            /\ UNCHANGED <<previous_state, current_state, state_changes, state_lock,
                           changeLog>>
    /\ UNCHANGED <<srvVars, histVars, auxVars, status_call, light_running, connected, light_socket,
                   communication_lock, sync_semaphore, inbox, reports, command,
                   new_state, mode, state_idx, gate, dwells, cmdsDelivered, emAt,
                   kinds>>

\* a report that carries the state the agent has left
send_state_to_server_current(t) ==
    /\ lpc[t] = "cs_send"
    /\ IF connected
       THEN /\ communication_lock = None
            /\ reports' = Append(reports, previous_state)
            /\ kinds' = Append(kinds, "change")
            /\ dwells' = IF mode[t] = "cycle" THEN Append(dwells, held) ELSE dwells
       ELSE UNCHANGED <<reports, dwells, kinds>>
    /\ state_lock' = None
    /\ lpc' = [lpc EXCEPT ![t] = AfterChange(t)]
    /\ slices' = DwellSlices(t)
    /\ held' = IF mode[t] = "cycle" THEN 0 ELSE held
    /\ UNCHANGED <<srvVars, histVars, auxVars, status_call, light_running, connected, light_socket,
                   current_state, previous_state, state_changes,
                   communication_lock, sync_semaphore, inbox, command, new_state,
                   mode, state_idx, gate, cmdsDelivered, emAt, changeLog>>

\* change_state: send_state_to_server(new_state) inside state_lock, then
\* release state_lock and return
send_state_to_server(t) ==
    /\ lpc[t] = "cs_send"
    /\ IF connected
       THEN /\ communication_lock = None
            /\ reports' = Append(reports, new_state[t])
            /\ kinds' = Append(kinds, "change")
            /\ dwells' = IF mode[t] = "cycle" THEN Append(dwells, held) ELSE dwells
       ELSE UNCHANGED <<reports, dwells, kinds>>
    /\ state_lock' = None
    /\ lpc' = [lpc EXCEPT ![t] = AfterChange(t)]
    /\ slices' = DwellSlices(t)
    /\ held' = IF mode[t] = "cycle" THEN 0 ELSE held
    /\ UNCHANGED <<srvVars, histVars, auxVars, status_call, light_running, connected, light_socket,
                   current_state, previous_state, state_changes,
                   communication_lock, sync_semaphore, inbox, command, new_state,
                   mode, state_idx, gate, cmdsDelivered, emAt, changeLog>>

\* the dwell loop: n turns (as many as are left, if fewer) of
\* `if not self.running: break` / time.sleep(0.1), with no other step between
DwellSleep(n) ==
    /\ lpc["cycle"] = "dwell"
    /\ light_running
    /\ slices > 0
    /\ slices' = slices - Min(n, slices)
    /\ held' = held + Min(n, slices)
    /\ UNCHANGED <<srvVars, histVars, auxVars, status_call, changeLog, kinds, light_running, connected, light_socket,
                   current_state, previous_state, state_changes, state_lock,
                   communication_lock, sync_semaphore, inbox, reports, lpc,
                   command, new_state, mode, state_idx, gate, dwells,
                   cmdsDelivered, emAt>>

\* the dwell loop ends (or breaks): leave `with self.sync_semaphore`
DwellEnd ==
    /\ lpc["cycle"] = "dwell"
    /\ ~light_running \/ slices = 0
    /\ sync_semaphore' = sync_semaphore + 1
    /\ gate' = None
    /\ state_idx' = state_idx + 1
    /\ lpc' = [lpc EXCEPT !["cycle"] = "for"]
    /\ UNCHANGED <<srvVars, histVars, auxVars, status_call, changeLog, kinds, light_running, connected, light_socket,
                   current_state, previous_state, state_changes, state_lock,
                   communication_lock, inbox, reports, command, new_state, mode,
                   slices, held, dwells, cmdsDelivered, emAt>>

\* handle_emergency_override: TrafficLightState[emergency_state.upper()], then
\* change_state; an unknown name raises KeyError, which is logged
handle_emergency_override ==
    /\ lpc["cycle"] = "emergency"
    /\ IF command["cycle"].state \in TrafficLightState
       THEN /\ new_state' = [new_state EXCEPT !["cycle"] = command["cycle"].state]
            /\ mode' = [mode EXCEPT !["cycle"] = "emergency"]
            /\ lpc' = [lpc EXCEPT !["cycle"] = "cs_enter"]
       ELSE /\ lpc' = [lpc EXCEPT !["cycle"] = "top"]
            /\ UNCHANGED <<new_state, mode>>
    /\ UNCHANGED <<srvVars, histVars, auxVars, status_call, changeLog, kinds, light_running, connected, light_socket,
                   current_state, previous_state, state_changes, state_lock,
                   communication_lock, sync_semaphore, inbox, reports, command,
                   state_idx, slices, gate, held, dwells, cmdsDelivered, emAt>>

\* an emergency hold after which the cycle picks up the state it had left
EmergencySleepResume ==
    /\ lpc["cycle"] = "em_sleep"
    /\ lpc' = [lpc EXCEPT !["cycle"] = "cs_enter"]
    /\ new_state' = [new_state EXCEPT !["cycle"] = previous_state]
    /\ mode' = [mode EXCEPT !["cycle"] = "cycle"]
    /\ UNCHANGED <<srvVars, histVars, auxVars, status_call, changeLog, kinds, light_running, connected, light_socket,
                   current_state, previous_state, state_changes, state_lock,
                   communication_lock, sync_semaphore, inbox, reports, command,
                   state_idx, slices, gate, held, dwells,
                   cmdsDelivered, emAt>>

\* handle_emergency_override: time.sleep(5), then `continue`
EmergencySleep ==
    /\ lpc["cycle"] = "em_sleep"
    /\ lpc' = [lpc EXCEPT !["cycle"] = "top"]
    /\ UNCHANGED <<srvVars, histVars, auxVars, status_call, changeLog, kinds, light_running, connected, light_socket,
                   current_state, previous_state, state_changes, state_lock,
                   communication_lock, sync_semaphore, inbox, reports, command,
                   new_state, mode, state_idx, slices, gate, held, dwells,
                   cmdsDelivered, emAt>>

\* a command handler that applies whatever state name it is given
handle_server_command_any_state ==
    /\ lpc["comm"] = "handle"
    /\ CASE command["comm"].type = "sync_request" ->
              /\ new_state' = [new_state EXCEPT !["comm"] = current_state]
              /\ lpc' = [lpc EXCEPT !["comm"] = "sync_send"]
              /\ UNCHANGED mode
         [] command["comm"].type = "state_change" ->
              /\ new_state' = [new_state EXCEPT !["comm"] = command["comm"].state]
              /\ mode' = [mode EXCEPT !["comm"] = "command"]
              /\ lpc' = [lpc EXCEPT !["comm"] = "cs_enter"]
         [] OTHER ->
              /\ lpc' = [lpc EXCEPT !["comm"] = "comm_sleep"]
              /\ UNCHANGED <<new_state, mode>>
    /\ UNCHANGED <<srvVars, histVars, auxVars, status_call, changeLog, kinds, light_running, connected, light_socket,
                   current_state, previous_state, state_changes, state_lock,
                   communication_lock, sync_semaphore, inbox, reports, command,
                   state_idx, slices, gate, held, dwells, cmdsDelivered, emAt>>

\* handle_server_command: sync_request sends the current state, state_change
\* calls change_state, anything else is dropped
handle_server_command ==
    /\ lpc["comm"] = "handle"
    /\ CASE command["comm"].type = "sync_request" ->
              /\ new_state' = [new_state EXCEPT !["comm"] = current_state]
              /\ lpc' = [lpc EXCEPT !["comm"] = "sync_send"]
              /\ UNCHANGED mode
         [] /\ command["comm"].type = "state_change"
            /\ command["comm"].state \in TrafficLightState ->
              /\ new_state' = [new_state EXCEPT !["comm"] = command["comm"].state]
              /\ mode' = [mode EXCEPT !["comm"] = "command"]
              /\ lpc' = [lpc EXCEPT !["comm"] = "cs_enter"]
         [] OTHER ->
              /\ lpc' = [lpc EXCEPT !["comm"] = "comm_sleep"]
              /\ UNCHANGED <<new_state, mode>>
    /\ UNCHANGED <<srvVars, histVars, auxVars, status_call, changeLog, kinds, light_running, connected, light_socket,
                   current_state, previous_state, state_changes, state_lock,
                   communication_lock, sync_semaphore, inbox, reports, command,
                   state_idx, slices, gate, held, dwells, cmdsDelivered, emAt>>

\* handle_server_command, sync_request: send_state_to_server(current_state)
SyncSend ==
    /\ lpc["comm"] = "sync_send"
    /\ IF connected
       THEN /\ communication_lock = None
            /\ reports' = Append(reports, new_state["comm"])
            /\ kinds' = Append(kinds, "sync")
       ELSE UNCHANGED <<reports, kinds>>
    /\ lpc' = [lpc EXCEPT !["comm"] = "comm_sleep"]
    /\ UNCHANGED <<srvVars, histVars, auxVars, status_call, changeLog, light_running, connected, light_socket,
                   current_state, previous_state, state_changes, state_lock,
                   communication_lock, sync_semaphore, inbox, command, new_state,
                   mode, state_idx, slices, gate, held, dwells, cmdsDelivered,
                   emAt>>

\* communication_thread: time.sleep(0.1)
CommSleep ==
    /\ lpc["comm"] = "comm_sleep"
    /\ lpc' = [lpc EXCEPT !["comm"] = "top"]
    /\ UNCHANGED <<srvVars, histVars, auxVars, status_call, changeLog, kinds, light_running, connected, light_socket,
                   current_state, previous_state, state_changes, state_lock,
                   communication_lock, sync_semaphore, inbox, reports, command,
                   new_state, mode, state_idx, slices, gate, held, dwells,
                   cmdsDelivered, emAt>>

\* ------------------------------------------------------------------ Spec
MsgsLeft(n) == delivered.classified + delivered.other + delivered.failed < n

\* steps of the handlers that need no input
HandlerSteps ==
    \/ \E c \in Conns : CountRead(c)
    \/ \E c \in Conns : CountWrite(c)

\* the threads start_server spawns, and the sync timers
WorkerSteps ==
    \/ \E t \in Triggerers : TrigCheck(t)
    \/ \E t \in Triggerers : TrigSet(t)
    \/ \E t \in Triggerers : TrigBroadcast(t)
    \/ \E i \in DOMAIN timers : TimerFire(i)
    \/ PeriodicWake
    \/ MonitorScan
    \/ \E i \in IDs : MonitorRemove(i)
    \/ MonitorLoop

\* each agent sends its own light_id on its own connection
OwnId(c) == IF c = "c1" THEN "A1" ELSE "A2"
OwnMsgs(c) ==
    {m \in RegisterMsgs \cup HeartbeatMsgs \cup StateUpdateMsgs :
        m.light_id = OwnId(c) /\ m.intersection \in {None, "Centro"}}

\* The registry over time: sessions register, refresh, disconnect and are
\* reaped while the clock runs.
Next ==
    \/ StartServer
    \/ \E c \in Conns : Accept(c)
    \/ /\ MsgsLeft(MaxMsgs)
       /\ \E c \in Conns : \E m \in OwnMsgs(c) : Process(c, m)
    \/ HandlerSteps
    \/ \E c \in Conns : RecvEnd(c)
    \/ \E c \in Conns : Finally(c)
    \/ \E c \in Conns : Close(c)
    \/ WorkerSteps
    \/ Tick(TickLen)

Spec == Init /\ [][Next]_vars

\* Message dispatch at one instant: any light_id on any connection, every
\* message type, disconnects and stop_server.
NextDispatch ==
    \/ StartServer
    \/ \E c \in Conns : Accept(c)
    \/ /\ MsgsLeft(MaxDispatch)
       /\ \E c \in Conns, m \in InboundMsgs : Process(c, m)
    \/ HandlerSteps
    \/ \E c \in Conns : RecvMalformed(c)
    \/ \E c \in Conns : RecvEnd(c)
    \/ \E c \in Conns : Finally(c)
    \/ \E c \in Conns : Close(c)
    \/ StopServer
    \/ StopClose

SpecDispatch == Init /\ [][NextDispatch]_vars

\* what the two peers write in the lock scenario: agent A1 registers and reports
\* on c1, the peer on c2 sends a registration whose light_id is not a string
LockMsgs(c) ==
    IF c = "c1"
    THEN {m \in RegisterMsgs \cup StateUpdateMsgs :
             m.light_id = "A1" /\ m.intersection \in {None, "Centro"}}
    ELSE {m \in BadIdMsgs : m.type = "register"}

\* Every thread that takes clients_lock, over time: two handlers (one of them
\* raising), the monitor, the periodic thread, the sync timers, and an outside
\* caller of acquire_locks_in_order / release_locks and of emergency_override.
NextLocks ==
    \/ StartServer
    \/ \E c \in Conns : Accept(c)
    \/ /\ MsgsLeft(MaxLockMsgs)
       /\ \E c \in Conns : \E m \in LockMsgs(c) : Process(c, m)
    \/ HandlerSteps
    \/ \E c \in Conns : HandlerRaise(c)
    \/ \E c \in Conns : RecvEnd(c)
    \/ \E c \in Conns : Finally(c)
    \/ \E c \in Conns : Close(c)
    \/ WorkerSteps
    \/ /\ callsMade < MaxLockCalls
       /\ \E lock_names \in LockRequests : ExtAcquire(lock_names)
    \/ ExtRelease
    \/ /\ callsMade < MaxLockCalls
       /\ EmergencyOverride(None, "RED")
    \/ EmergencyCount
    \/ EmergencySend
    \/ Tick(MONITOR_SLEEP)

SpecLocks == Init /\ [][NextLocks]_vars

\* what agent A1 writes in the status scenario
StatusMsgs ==
    {m \in RegisterMsgs \cup StateUpdateMsgs :
        m.light_id = "A1" /\ m.intersection \in {None, "Centro"}}

\* One status snapshot, taken at any moment of a run in which agent A1
\* registers and reports, the workers and timers run and emergency_override is
\* called; the run is followed up to the snapshot.
NextStatus ==
    \/ ~snapshot.taken /\ StartServer
    \/ ~snapshot.taken /\ Accept("c1")
    \/ /\ ~snapshot.taken
       /\ MsgsLeft(MaxStatusMsgs)
       /\ \E m \in StatusMsgs : Process("c1", m)
    \/ ~snapshot.taken /\ HandlerSteps
    \/ ~snapshot.taken /\ WorkerSteps
    \/ /\ ~snapshot.taken
       /\ callsMade < MaxStatusCalls
       /\ EmergencyOverride(None, "RED")
    \/ ~snapshot.taken /\ EmergencyCount
    \/ ~snapshot.taken /\ EmergencySend
    \/ ~snapshot.taken /\ get_system_status
    \/ ~snapshot.taken /\ Tick(MONITOR_SLEEP)

SpecStatus == Init /\ [][NextStatus]_vars

\* Emergency override against a changing registry.
NextEmergency ==
    \/ StartServer
    \/ \E c \in Conns : Accept(c)
    \/ /\ MsgsLeft(MaxRegs)
       /\ \E c \in Conns, m \in RegisterMsgs : Process(c, m)
    \/ HandlerSteps
    \/ \E c \in Conns : RecvEnd(c)
    \/ \E c \in Conns : Finally(c)
    \/ \E c \in Conns : Close(c)
    \/ /\ callsMade < MaxOverrides
       /\ \E target \in Targets : EmergencyOverride(target, "RED")
    \/ EmergencyCount
    \/ EmergencySend

SpecEmergency == Init /\ [][NextEmergency]_vars

\* The three trigger paths of synchronization over time.
NextSync ==
    \/ StartServer
    \/ Accept("c1")
    \/ /\ MsgsLeft(MaxSyncMsgs)
       /\ \E m \in {x \in RegisterMsgs \cup StateUpdateMsgs : x.light_id = "A1"
                                          /\ x.intersection \in {None, "Centro"}} :
             Process("c1", m)
    \/ HandlerSteps
    \/ WorkerSteps
    \/ /\ callsMade < MaxTriggers
       /\ ExtTrigger
    \/ Tick(TickLen)

SpecSync == Init /\ [][NextSync]_vars

\* One agent: its two loops, the commands the coordinator writes to it, stop().
NextAgent ==
    \/ \E ok \in BOOLEAN : LightStart(ok)
    \/ LightStop
    \/ LightDisconnect
    \/ /\ cmdsDelivered < MaxCmds
       /\ \E cmd \in Commands : DeliverCommand(cmd)
    \/ \E t \in LightThreads : RecvBegin(t)
    \/ \E t \in LightThreads : RecvReturn(t)
    \/ \E t \in LightThreads : LoopTop(t)
    \/ /\ state_changes < MaxAgentChanges
       /\ CycleFor
    \/ \E t \in LightThreads : change_state(t)
    \/ \E t \in LightThreads : send_state_to_server(t)
    \/ DwellSleep(SliceStep)
    \/ DwellEnd
    \/ handle_emergency_override
    \/ EmergencySleep
    \/ handle_server_command
    \/ SyncSend
    \/ CommSleep

SpecAgent == Init /\ [][NextAgent]_vars

\* One agent that is sent no command.
NextCycle ==
    \/ \E ok \in BOOLEAN : LightStart(ok)
    \/ LightStop
    \/ LightDisconnect
    \/ \E t \in LightThreads : RecvBegin(t)
    \/ \E t \in LightThreads : RecvReturn(t)
    \/ \E t \in LightThreads : LoopTop(t)
    \/ /\ state_changes < MaxChanges
       /\ CycleFor
    \/ change_state("cycle")
    \/ send_state_to_server("cycle")
    \/ DwellSleep(1)
    \/ DwellEnd
    \/ CommSleep

SpecCycle == Init /\ [][NextCycle]_vars

\* the message send_state_to_server writes for a state
AgentMsg(state) ==
    [type |-> "state_update", light_id |-> "A1", intersection |-> "Centro",
     state |-> state]

\* the handler of c1 reads the agent's next message and processes it
ServerReceives ==
    /\ delivered.classified < Len(reports)
    /\ Process("c1", AgentMsg(reports[delivered.classified + 1]))

\* Agent A1 and the coordinator together: the agent connects to the running
\* coordinator, which accepts it on c1 and processes what the agent sends, in
\* the order sent.
NextSystem ==
    \/ StartServer
    \/ \E ok \in BOOLEAN :
          /\ ok => (running /\ threadsStarted)
          /\ LightStart(ok)
    \/ connected /\ Accept("c1")
    \/ ServerReceives
    \/ HandlerSteps
    \/ \E t \in LightThreads : RecvBegin(t)
    \/ \E t \in LightThreads : RecvReturn(t)
    \/ \E t \in LightThreads : LoopTop(t)
    \/ /\ state_changes < MaxChanges
       /\ CycleFor
    \/ change_state("cycle")
    \/ send_state_to_server("cycle")
    \/ DwellSleep(SliceStep)
    \/ DwellEnd
    \/ CommSleep

SpecSystem == Init /\ [][NextSystem]_vars

\* One agent to which the coordinator writes only commands that name no valid
\* state.
NextBadCommands ==
    \/ \E ok \in BOOLEAN : LightStart(ok)
    \/ /\ cmdsDelivered < MaxBadCmds
       /\ \E cmd \in BadCommands : DeliverCommand(cmd)
    \/ \E t \in LightThreads : RecvBegin(t)
    \/ \E t \in LightThreads : RecvReturn(t)
    \/ \E t \in LightThreads : LoopTop(t)
    \/ /\ state_changes < MaxAgentChanges
       /\ CycleFor
    \/ \E t \in LightThreads : change_state(t)
    \/ \E t \in LightThreads : send_state_to_server(t)
    \/ DwellSleep(SliceStep)
    \/ DwellEnd
    \/ handle_emergency_override
    \/ handle_server_command
    \/ CommSleep

SpecBadCommands == Init /\ [][NextBadCommands]_vars

\* =================================================================== claims
\* no handler is between remove_client and client_socket.close()
NoHandlerClosing == \A c \in Conns : pc[c] # "close"

\* handlers that have taken a message and not yet counted it
InFlight ==
    Cardinality({c \in Conns :
                    pc[c] \in {"trig", "trig_set", "trig_bcast",
                               "count_read", "count_write"}})

\* C1: an id is in the registry if and only if the connection over which its
\* latest register arrived is open (stated while no handler is half-way through
\* its disconnect clean-up).  Fails: a session reaped by the liveness monitor
\* leaves the registry while its registered connection stays open.
C1_RegistryIffOpenRegistered ==
    NoHandlerClosing =>
        \A i \in IDs :
            (i \in DOMAIN clients)
                <=> (regConn[i] # None /\ sock[regConn[i]] = "open")

\* C2: the size of the registry equals the number of distinct ids registered
\* minus the number of those removed (by disconnect or by the liveness monitor)
\* since their registration, in every interleaving of the handlers.
C2_RegistrySize ==
    Cardinality(DOMAIN clients)
        = Cardinality(registeredIds) - Cardinality(removedIds)

\* both ids registered, one of them reaped by the monitor, one session left
C2_Witness ==
    /\ registeredIds = IDs
    /\ evictedHandles # {}
    /\ Cardinality(removedIds) = 1
    /\ Cardinality(DOMAIN clients) = 1

C4_OneBroadcastPerWindow == windowBroadcasts <= 1

\* C5: a registered session's heartbeat age never exceeds 60 + 10 seconds while
\* it is in the registry, and right after a sweep of the liveness monitor no
\* session older than 60 seconds is left.
C5_ReapedWithinTenSeconds ==
    /\ \A i \in DOMAIN clients : now - clients[i].last_heartbeat <= 60 + 10
    /\ (pc["monitor"] = "sleep" /\ wake["monitor"] = now + 10)
          => \A i \in DOMAIN clients : now - clients[i].last_heartbeat <= 60

\* the monitor is about to reap a session whose heartbeat is exactly 70 s old
C5_Witness ==
    /\ pc["monitor"] = "remove"
    /\ \E i \in inactive \cap DOMAIN clients :
          now - clients[i].last_heartbeat = 70

\* C6: the handle of every session the liveness monitor evicted is closed.
\* Fails: remove_client never closes the socket.
C6_EvictionClosesHandle ==
    \A c \in evictedHandles : sock[c] = "closed"

\* C7: a scoped emergency_override writes one message per session of the
\* target intersection on that session's connection and none for any other
\* session; an unscoped one (no target, or an empty one) writes one per
\* session.  Sessions are those in the registry at the call whose connection
\* handle is open.
C7_EmergencyScope ==
    eoLast.sent =>
        \A c \in Conns :
            eoLast.got[c] =
                IF c \in eoLast.open
                THEN Cardinality(
                        {i \in DOMAIN eoLast.sessions :
                            /\ eoLast.sessions[i].socket = c
                            /\ eoLast.target \in Intersections
                                  => eoLast.sessions[i].intersection = eoLast.target})
                ELSE 0

\* an override scoped to Centro reached the Centro session and not the Sur one
C7_Witness ==
    /\ eoLast.sent
    /\ eoLast.target = "Centro"
    /\ \E i, j \in DOMAIN eoLast.sessions :
          /\ eoLast.sessions[i].intersection = "Centro"
          /\ eoLast.sessions[j].intersection = "Sur"
          /\ eoLast.sessions[i].socket # eoLast.sessions[j].socket
          /\ eoLast.sessions[j].socket \in eoLast.open
          /\ eoLast.got[eoLast.sessions[i].socket] = 1
          /\ eoLast.got[eoLast.sessions[j].socket] = 0

\* C8 as stated: with no command delivered, the k-th reported state is the
\* k-th element of RED, GREEN, YELLOW, RED, ... (first report RED).  Fails:
\* the initial RED is not a change and is never reported.
C8_ReportsStartWithRed ==
    \A k \in 1..Len(reports) : reports[k] = CycleStates[((k - 1) % 3) + 1]

\* C8 amended: with no command delivered, the reported states are exactly
\* GREEN, YELLOW, RED, GREEN, ... (first report GREEN), and each report is
\* made after the state before it was held for its configured dwell, that is
\* STATE_DURATIONS x 10 sleeps of 0.1 s.
C8_ReportsFollowCycle ==
    /\ Len(dwells) = Len(reports)
    /\ \A k \in 1..Len(reports) :
          /\ reports[k] = CycleStates[(k % 3) + 1]
          /\ dwells[k] = STATE_DURATIONS[CycleStates[((k - 1) % 3) + 1]] * 10

\* a full period and one more report
C8_Witness ==
    /\ cmdsDelivered = 0
    /\ reports = <<"GREEN", "YELLOW", "RED", "GREEN">>
    /\ dwells = <<80, 100, 30, 80>>

\* C9: once an emergency_override with a valid state S was delivered while the
\* running agent dwelt in GREEN, the next state_update it sends carries S.
\* Fails: the cycle thread reads commands only between periods and the command
\* thread drops emergency_override, so YELLOW is reported next.
C9_EmergencyReportedNext ==
    (emAt.set /\ Len(reports) > emAt.at) => reports[emAt.at + 1] = emAt.state

\* C10: a thread that is inside change_state with the state changed holds the
\* permit of sync_semaphore.  Fails: the command thread applies state_change
\* while the cycle thread holds the permit, and the cycle thread applies an
\* emergency_override with the permit held by nobody.
C10_GateHeldByChanger ==
    \A t \in LightThreads : lpc[t] = "cs_send" => gate = t

\* ---------------------------------------------------------------- C11
\* rank of a lock name in the global order system_lock < clients_lock <
\* message_lock, any other name last
C11_Rank(n) ==
    IF n = "system_lock" THEN 1
    ELSE IF n = "clients_lock" THEN 2
    ELSE IF n = "message_lock" THEN 3
    ELSE 4

C11_Count(seq, n) == Cardinality({i \in DOMAIN seq : seq[i] = n})

\* the next step of the thread that holds clients_lock
C11_HolderStep ==
    \/ \E c \in Conns :
          /\ clients_lock.owner = c
          /\ \/ CountRead(c) \/ CountWrite(c) \/ HandlerRaise(c)
             \/ TrigCheck(c) \/ TrigSet(c) \/ TrigBroadcast(c)
    \/ clients_lock.owner = "ext" /\ ExtRelease

\* C11: acquire_locks_in_order walks the requested names in the global
\* resource order whatever the request order, returns clients_lock once per
\* time it was requested and holds it that many times; release_locks gives all
\* of it back; and the thread that holds clients_lock is never itself blocked,
\* so no set of coordinator threads waits in a circle.
C11_OrderedAcquireNoCircularWait ==
    /\ pc["ext"] = "holding" =>
          /\ Len(call.sorted_locks) = Len(call.lock_names)
          /\ \A n \in LockNames :
                C11_Count(call.sorted_locks, n) = C11_Count(call.lock_names, n)
          /\ \A i, j \in DOMAIN call.sorted_locks :
                i < j => C11_Rank(call.sorted_locks[i]) <= C11_Rank(call.sorted_locks[j])
          /\ \A i \in DOMAIN call.acquired_locks :
                call.acquired_locks[i] = "clients_lock"
          /\ Len(call.acquired_locks) = C11_Count(call.lock_names, "clients_lock")
          /\ Len(call.acquired_locks) > 0 =>
                /\ clients_lock = [owner |-> "ext", count |-> Len(call.acquired_locks)]
                /\ "clients_lock" \in active_locks
          /\ Len(call.acquired_locks) = 0 => clients_lock.owner # "ext"
    /\ pc["ext"] # "holding" => clients_lock.owner # "ext"
    /\ clients_lock.owner = None <=> clients_lock.count = 0
    /\ clients_lock.owner # None => ENABLED C11_HolderStep

\* an outside caller holds clients_lock, requested after system_lock's turn,
\* while a registered agent's handler and the workers are running
C11_Witness ==
    /\ pc["ext"] = "holding"
    /\ call.lock_names = <<"clients_lock", "system_lock">>
    /\ call.sorted_locks = <<"system_lock", "clients_lock">>
    /\ clients_lock.owner = "ext"
    /\ "A1" \in DOMAIN clients
    /\ pc["c2"] = "recv"

\* ---------------------------------------------------------------- C12
\* positions of a handler thread inside process_client_message
C12_InsideProcess ==
    {"count_read", "count_write", "raise", "trig", "trig_set", "trig_bcast"}

\* C12: a handler thread holds clients_lock only while it is inside
\* process_client_message, and then exactly once; once the call has returned
\* or raised (unknown type, registration, update with or without a
\* synchronization broadcast, a failing handler) the thread holds nothing, and
\* a lock nobody holds has hold count zero, so any thread may take it.
C12_NoExitLeavesLockHeld ==
    /\ \A c \in Conns :
          /\ pc[c] \notin C12_InsideProcess => clients_lock.owner # c
          /\ pc[c] \in C12_InsideProcess =>
                clients_lock = [owner |-> c, count |-> 1]
    /\ clients_lock.owner = None =>
          /\ clients_lock.count = 0
          /\ \A t \in Threads : LockFreeFor(t)

\* the handler of c1 is back in its receive loop after a state_update that
\* triggered a synchronization broadcast (before the periodic thread's first
\* trigger), and the lock is free
C12_Witness ==
    /\ pc["c1"] = "recv"
    /\ "A1" \in DOMAIN clients
    /\ clients["A1"].state_changes = 1
    /\ windowBroadcasts = 1
    /\ now > SYNC_STALENESS
    /\ now < 2 * PERIODIC_SLEEP
    /\ clients_lock.owner = None

\* ---------------------------------------------------------------- C13
\* C13: close() is called at most once on every connection, by stop_server or
\* by the connection's handler, and once stop_server has finished and every
\* handler has exited, exactly once on every accepted connection.
C13_ClosedExactlyOnce ==
    /\ \A c \in Conns : closes[c] <= 1
    /\ (pc["stopper"] = "done" /\ \A c \in Conns : pc[c] \in {"idle", "done"}) =>
          \A c \in Conns : pc[c] = "done" => closes[c] = 1

\* ---------------------------------------------------------------- C14
\* C14: a status snapshot shows no operation half applied: emergency mode only
\* together with its counted override, a synchronization in progress only
\* together with its counted operation, and every counted state change of a
\* session together with the count of the message that made it.
C14_ConsistentSnapshot ==
    snapshot.taken =>
        /\ snapshot.system_state.emergency_mode =>
              snapshot.stats.emergency_overrides >= 1
        /\ snapshot.system_state.sync_in_progress =>
              snapshot.stats.sync_operations >= 1
        /\ \A i \in DOMAIN snapshot.clients :
              snapshot.clients[i].state_changes + 1 <= snapshot.stats.messages_processed

\* ---------------------------------------------------------------- C15
\* C15: whenever nobody holds the registry lock, system_state.total_clients
\* is the number of sessions in the registry.
C15_TotalClientsIsRegistrySize ==
    clients_lock.owner = None =>
        system_state.total_clients = Cardinality(DOMAIN clients)

\* two agents registered and one of them was removed since: one session left
C15_Witness ==
    /\ clients_lock.owner = None
    /\ registeredIds = IDs
    /\ Cardinality(removedIds) = 1
    /\ Cardinality(DOMAIN clients) = 1
    /\ system_state.total_clients = 1

\* ---------------------------------------------------------------- C16
\* C16: in a status snapshot, the state_changes of a session that has not been
\* removed since it registered is the number of state_update messages
\* processed for its id since that registration, and messages_processed is at
\* least that number plus one, the registration itself.
C16_SnapshotCountsUpdates ==
    snapshot.taken =>
        \A i \in DOMAIN snapshot.clients :
            i \notin snapshot.removed =>
                /\ snapshot.clients[i].state_changes = snapshot.updates[i]
                /\ snapshot.stats.messages_processed >= snapshot.updates[i] + 1

\* A1 registered and reported three times before the snapshot
C16_Witness ==
    /\ snapshot.taken
    /\ "A1" \in DOMAIN snapshot.clients
    /\ snapshot.removed = {}
    /\ snapshot.updates["A1"] = 3
    /\ snapshot.clients["A1"].state_changes = 3
    /\ snapshot.stats.messages_processed = 4

\* ---------------------------------------------------------------- C17
\* C17: a started agent registers before its first state_update, so once the
\* coordinator has processed a message of the agent it holds a session for
\* the agent, and that session carries the state last reported and processed.
C17_RegisteredBeforeUpdates ==
    (delivered.classified >= 1 /\ pc["c1"] = "recv") =>
        /\ "A1" \in registeredIds
        /\ "A1" \in DOMAIN clients
        /\ clients["A1"].state = reports[delivered.classified]

C19_ChangeReports ==
    LET idx == {i \in DOMAIN kinds : kinds[i] = "change"}
        nth(k) == CHOOSE i \in idx : Cardinality({j \in idx : j <= i}) = k
    IN  [k \in 1..Cardinality(idx) |-> reports[nth(k)]]

\* threads that have changed current_state and not yet sent the report
C19_Sending == {t \in LightThreads : lpc[t] = "cs_send"}

\* C19: while the agent is connected, the state_update messages sent for
\* state changes are, in order, the new states of the changes made so far,
\* one message per change, whichever thread made it; the only change without
\* its message yet is the one a thread is sending right now.
C19_EveryChangeReportedInOrder ==
    connected =>
        /\ Len(changeLog) = Len(C19_ChangeReports) + Cardinality(C19_Sending)
        /\ Cardinality(C19_Sending) <= 1
        /\ \A k \in DOMAIN C19_ChangeReports : C19_ChangeReports[k] = changeLog[k]

\* the cycle thread changed the state to GREEN, a command changed it to RED
\* (a step the cycle never makes), the cycle went on, and every change has
\* been reported
C19_Witness ==
    /\ connected
    /\ C19_Sending = {}
    /\ Len(changeLog) >= 3
    /\ \E k \in DOMAIN changeLog :
          /\ k + 1 < Len(changeLog)
          /\ changeLog[k] = "GREEN"
          /\ changeLog[k + 1] = "RED"
    /\ C19_ChangeReports = changeLog

\* ---------------------------------------------------------------- C20
\* C20: after undecodable bytes have arrived on the connection of a
\* registered agent, while the peer is still there and the coordinator runs,
\* the connection's handler is still in its receive loop, the connection is
\* open, and the agent's session is still in the registry.
C20_MalformedDropped ==
    \A c \in malformed : \A i \in IDs :
        (running /\ peer[c] /\ client_id[c] = i /\ regConn[i] = c) =>
            /\ pc[c] \notin {"finally", "close", "done"}
            /\ sock[c] = "open"
            /\ i \in DOMAIN clients

\* ---------------------------------------------------------------- C21
\* the state that follows s in the cycle RED -> GREEN -> YELLOW -> RED
C21_CycleNext(s) ==
    CASE s = "RED" -> "GREEN"
      [] s = "GREEN" -> "YELLOW"
      [] s = "YELLOW" -> "RED"

\* C21: commands that name a state outside RED, YELLOW, GREEN (an unknown
\* name or none) leave no trace on the agent: every change of current_state is
\* the cycle's own, previous_state and state_changes record only those,
\* every state_update sent reports one of them, and while the agent runs
\* neither loop has ended.
C21_BadCommandIgnored ==
    /\ current_state \in TrafficLightState
    /\ previous_state \in TrafficLightState
    /\ state_changes = Len(changeLog)
    /\ \A k \in DOMAIN changeLog :
          changeLog[k] = C21_CycleNext(IF k = 1 THEN "RED" ELSE changeLog[k - 1])
    /\ changeLog # <<>> =>
          /\ current_state = changeLog[Len(changeLog)]
          /\ current_state = C21_CycleNext(previous_state)
    /\ Len(reports) <= Len(changeLog)
    /\ \A k \in DOMAIN reports : reports[k] = changeLog[k] /\ kinds[k] = "change"
    /\ (light_running /\ connected) => \A t \in LightThreads : lpc[t] \notin {"idle", "done"}

\* after a full period the cycle thread has just handled an emergency_override
\* for PURPLE and is back at the top of its loop, and the command thread has
\* just handled a state_change that names no state
C21_Witness ==
    /\ light_running
    /\ command["cycle"] = [type |-> "emergency_override", state |-> "PURPLE"]
    /\ lpc["cycle"] = "top"
    /\ command["comm"] = [type |-> "state_change", state |-> None]
    /\ lpc["comm"] = "comm_sleep"
    /\ changeLog = <<"GREEN", "YELLOW">>
    /\ reports = changeLog

\* ---------------------------------------------------------------------
\* Accept loop: connections, failing handlers and failing accept() calls
\* ---------------------------------------------------------------------
NextAccept ==
    \/ StartServer
    \/ \E c \in Conns : Accept(c)
    \/ AcceptFail
    \/ /\ MsgsLeft(MaxAcceptMsgs)
       /\ \E c \in Conns, m \in RegisterMsgs \cup BadIdMsgs : Process(c, m)
    \/ HandlerSteps
    \/ \E c \in Conns : RecvMalformed(c)
    \/ \E c \in Conns : RecvEnd(c)
    \/ \E c \in Conns : Finally(c)
    \/ \E c \in Conns : Close(c)
    \/ StopServer
    \/ StopClose

SpecAccept == Init /\ [][NextAccept]_vars

\* C22: while the server is running, the accept loop is still accepting
\* connections whatever single accept or connection failure has happened.
C22_AcceptLoopSurvives ==
    (running /\ threadsStarted) => pc["accept"] = "accepting"


\* ---------------------------------------------------------------------
\* Stopping an agent: stop() at any point of the two loops
\* ---------------------------------------------------------------------
\* the command the coordinator writes while the agent is being stopped: the
\* emergency override, whose state is held for 5 seconds
StopCommands ==
    {cmd \in Commands : cmd.type = "emergency_override" /\ cmd.state = "RED"}

\* the cycle loop's `for` turn; new cycles are bounded only while running
StopCycleFor ==
    /\ state_changes < MaxStopChanges \/ ~light_running
    /\ CycleFor

NextStop ==
    \/ \E ok \in BOOLEAN : LightStart(ok)
    \/ LightStop
    \/ LightDisconnect
    \/ /\ cmdsDelivered < MaxStopCmds
       /\ \E cmd \in StopCommands : DeliverCommand(cmd)
    \/ \E t \in LightThreads : RecvBegin(t)
    \/ \E t \in LightThreads : RecvReturn(t)
    \/ \E t \in LightThreads : LoopTop(t)
    \/ StopCycleFor
    \/ \E t \in LightThreads : change_state(t)
    \/ \E t \in LightThreads : send_state_to_server(t)
    \/ DwellSleep(SliceStep)
    \/ DwellEnd
    \/ handle_emergency_override
    \/ EmergencySleep
    \/ handle_server_command
    \/ CommSleep

\* one step of the thread that runs traffic_light_cycle ("cycle") or
\* communication_thread ("comm")
LoopStep(t) ==
    \/ RecvBegin(t)
    \/ RecvReturn(t)
    \/ LoopTop(t)
    \/ change_state(t)
    \/ send_state_to_server(t)
    \/ /\ t = "cycle"
       /\ \/ StopCycleFor
          \/ DwellSleep(SliceStep)
          \/ DwellEnd
          \/ handle_emergency_override
          \/ EmergencySleep
    \/ /\ t = "comm"
       /\ \/ handle_server_command
          \/ CommSleep

\* Both loops run in threads of their own: a runnable thread is scheduled,
\* time.sleep and the receive timeout of one second end, and a lock that is
\* free from some point on is obtained by the thread waiting for it.
FairLoops ==
    \A t \in LightThreads : WF_vars(LoopStep(t))

SpecStop == Init /\ [][NextStop]_vars /\ FairLoops

\* C23: once stop() has cleared the running flag of a started agent, both
\* traffic_light_cycle and communication_thread eventually return, wherever
\* they were: in a dwell sleep, in a blocked receive or in an emergency hold.
C23_LoopsExitAfterStop ==
    (~light_running /\ \E t \in LightThreads : lpc[t] # "idle")
        ~> (\A t \in LightThreads : lpc[t] = "done")

\* stop() arrives while the cycle thread holds an emergency state and the
\* communication thread is blocked in its receive
C23_Witness ==
    /\ ~light_running
    /\ lpc["cycle"] = "em_sleep"
    /\ lpc["comm"] = "recv_wait"

\* ---------------------------------------------------------------------
\* Shutdown of the coordinator: stop_server against open connections
\* ---------------------------------------------------------------------
\* recv raises in the handler of a connection whose socket stop_server closed
RecvClosed(c) ==
    /\ sock[c] = "closed"
    /\ RecvEnd(c)

\* a step the handler thread of connection c takes without its peer
HandlerStep(c) ==
    \/ CountRead(c)
    \/ CountWrite(c)
    \/ RecvClosed(c)
    \/ Finally(c)
    \/ Close(c)

NextShutdown ==
    \/ StartServer
    \/ \E c \in Conns : Accept(c)
    \/ /\ MsgsLeft(MaxShutdownMsgs)
       /\ \E c \in Conns : \E m \in OwnMsgs(c) : Process(c, m)
    \/ HandlerSteps
    \/ \E c \in Conns : RecvEnd(c)
    \/ \E c \in Conns : Finally(c)
    \/ \E c \in Conns : Close(c)
    \/ StopServer
    \/ StopClose

\* The handler threads and the caller of stop_server are scheduled; what a
\* peer does (send, disconnect) is up to the peer.
FairShutdown ==
    /\ \A c \in Conns : WF_vars(HandlerStep(c))
    /\ WF_vars(StopClose)

SpecShutdown == Init /\ [][NextShutdown]_vars /\ FairShutdown

\* C24: once stop_server has cleared the running flag and closed the sockets,
\* every per-connection receive loop eventually exits, also the loop of a
\* connection that never registered and whose peer stays connected.
C24_HandlersExitAfterStop ==
    (~running /\ pc["stopper"] = "done")
        ~> (\A c \in Conns : pc[c] \in {"idle", "done"})

\* ---------------------------------------------------------------------
\* Stopping twice: stop_server and stop called again, also on instances that
\* were never started
\* ---------------------------------------------------------------------
\* the coordinator has not been touched, or its second stop_server returned
ServerAtRest ==
    \/ ~threadsStarted /\ pc["stopper"] = "idle"
    \/ pc["stopper"] = "done_again"

\* the agent is as constructed
AgentAsNew ==
    /\ ~light_running
    /\ light_socket = "none"
    /\ \A t \in DOMAIN lpc : lpc[t] = "idle"

\* One caller drives the coordinator through start_server and two stop_server
\* calls, then the agent through start and repeated stop calls.
NextStopTwice ==
    \/ AgentAsNew /\ StartServer
    \/ AgentAsNew /\ \E c \in Conns : Accept(c)
    \/ /\ AgentAsNew
       /\ MsgsLeft(MaxStopTwiceMsgs)
       /\ \E c \in Conns : \E m \in {x \in RegisterMsgs : x.light_id = OwnId(c)
                                        /\ x.intersection = "Centro"} :
             Process(c, m)
    \/ AgentAsNew /\ HandlerSteps
    \/ AgentAsNew /\ \E c \in Conns : RecvEnd(c)
    \/ AgentAsNew /\ \E c \in Conns : Finally(c)
    \/ AgentAsNew /\ \E c \in Conns : Close(c)
    \/ AgentAsNew /\ StopServer
    \/ AgentAsNew /\ StopClose
    \/ AgentAsNew /\ StopServerAgain
    \/ AgentAsNew /\ StopCloseAgain
    \/ ServerAtRest /\ lpc["stop"] = "idle" /\ \E ok \in BOOLEAN : LightStart(ok)
    \/ ServerAtRest /\ LightStop
    \/ ServerAtRest /\ LightDisconnect
    \/ ServerAtRest /\ \E t \in LightThreads : RecvBegin(t)
    \/ ServerAtRest /\ \E t \in LightThreads : RecvReturn(t)
    \/ ServerAtRest /\ \E t \in LightThreads : LoopTop(t)
    \/ /\ ServerAtRest
       /\ state_changes < MaxStopTwiceChanges
       /\ CycleFor
    \/ ServerAtRest /\ change_state("cycle")
    \/ ServerAtRest /\ send_state_to_server("cycle")
    \/ ServerAtRest /\ DwellSleep(SliceStep)
    \/ ServerAtRest /\ DwellEnd
    \/ ServerAtRest /\ CommSleep

SpecStopTwice == Init /\ [][NextStopTwice]_vars

\* what a stop() call leaves: running false, the connection closed
C25_AgentStopped ==
    /\ ~light_running
    /\ ~connected
    /\ light_socket \in {"none", "closed"}

\* what a stop_server() call leaves: running false, every registered
\* connection closed
C25_ServerStopped ==
    /\ ~running
    /\ \A i \in DOMAIN client_sockets : sock[client_sockets[i]] = "closed"

\* C25: stop and stop_server are idempotent. Every call, also one on an
\* instance that was never started, ends with running false and the
\* connections closed and raises nothing; a call on a stopped agent changes
\* none of running, connected and the socket; a second stop_server changes
\* neither running nor the registry and opens no socket.
C25_StopIdempotent ==
    [][ /\ (lpc["stop"] = "disconnect" /\ lpc'["stop"] = "idle") => C25_AgentStopped'
        /\ (C25_AgentStopped /\ lpc'["stop"] # lpc["stop"]) =>
              /\ C25_AgentStopped'
              /\ <<light_running, connected, light_socket>>'
                    = <<light_running, connected, light_socket>>
        /\ (pc["stopper"] \in {"closing", "closing_again"}
              /\ pc'["stopper"] \in {"done", "done_again"}) => C25_ServerStopped'
        /\ (pc["stopper"] \in {"done", "closing_again"}
              /\ pc'["stopper"] # pc["stopper"]) =>
              /\ running' = running
              /\ clients' = clients
              /\ client_sockets' = client_sockets
              /\ \A c \in Conns : sock'[c] # sock[c] => sock'[c] = "closed"
      ]_vars

\* the second stop_server has returned with a registered connection closed,
\* and a second stop() of the agent, whose loops have ended, is under way
C25_Witness ==
    /\ pc["stopper"] = "done_again"
    /\ client_sockets # <<>>
    /\ C25_ServerStopped
    /\ lpc["stop"] = "disconnect"
    /\ lpc["cycle"] = "done"
    /\ lpc["comm"] = "done"
    /\ C25_AgentStopped
    /\ light_socket = "closed"

\* ---------------------------------------------------------------------
\* change_state and get_status called concurrently, statement by statement
\* ---------------------------------------------------------------------
\* a test thread calls change_state(state) on the agent
CallChange(t, state) ==
    /\ lpc[t] = "idle"
    /\ new_state' = [new_state EXCEPT ![t] = state]
    /\ mode' = [mode EXCEPT ![t] = "call"]
    /\ lpc' = [lpc EXCEPT ![t] = "cs_enter"]
    /\ UNCHANGED <<srvVars, histVars, auxVars, light_running, connected,
                   light_socket, current_state, previous_state, state_changes,
                   state_lock, communication_lock, sync_semaphore, inbox,
                   reports, command, state_idx, slices, gate, held, dwells,
                   cmdsDelivered, emAt, changeLog, kinds, status_call>>

\* change_state: `with self.state_lock`, `if self.current_state != new_state`,
\* `self.previous_state = self.current_state`; an unchanged state returns False
change_state_enter(t) ==
    /\ lpc[t] = "cs_enter"
    /\ state_lock = None
    /\ IF current_state # new_state[t]
       THEN /\ state_lock' = t
            /\ previous_state' = current_state
            /\ changeLog' = Append(changeLog, new_state[t])
            /\ lpc' = [lpc EXCEPT ![t] = "cs_current"]
       ELSE /\ lpc' = [lpc EXCEPT ![t] = AfterChange(t)]
            /\ UNCHANGED <<state_lock, previous_state, changeLog>>
    /\ UNCHANGED <<srvVars, histVars, auxVars, light_running, connected,
                   light_socket, current_state, state_changes,
                   communication_lock, sync_semaphore, inbox, reports, command,
                   new_state, mode, state_idx, slices, gate, held, dwells,
                   cmdsDelivered, emAt, kinds, status_call>>

\* change_state: `self.current_state = new_state`
change_state_current(t) ==
    /\ lpc[t] = "cs_current"
    /\ current_state' = new_state[t]
    /\ lpc' = [lpc EXCEPT ![t] = "cs_count"]
    /\ UNCHANGED <<srvVars, histVars, auxVars, light_running, connected,
                   light_socket, previous_state, state_changes, state_lock,
                   communication_lock, sync_semaphore, inbox, reports, command,
                   new_state, mode, state_idx, slices, gate, held, dwells,
                   cmdsDelivered, emAt, changeLog, kinds, status_call>>

\* change_state: `self.state_changes += 1`; next comes send_state_to_server
change_state_count(t) ==
    /\ lpc[t] = "cs_count"
    /\ state_changes' = state_changes + 1
    /\ lpc' = [lpc EXCEPT ![t] = "cs_send"]
    /\ UNCHANGED <<srvVars, histVars, auxVars, light_running, connected,
                   light_socket, current_state, previous_state, state_lock,
                   communication_lock, sync_semaphore, inbox, reports, command,
                   new_state, mode, state_idx, slices, gate, held, dwells,
                   cmdsDelivered, emAt, changeLog, kinds, status_call>>

\* a status call that does not wait for state_lock
get_status_enter_unlocked ==
    /\ status_call.pc = "idle"
    /\ status_call' = [status_call EXCEPT !.pc = "locked"]
    /\ UNCHANGED <<srvVars, histVars, auxVars, light_running, connected,
                   light_socket, current_state, previous_state, state_changes,
                   state_lock, communication_lock, sync_semaphore, inbox,
                   reports, lpc, command, new_state, mode, state_idx, slices,
                   gate, held, dwells, cmdsDelivered, emAt, changeLog, kinds>>

\* get_status: `with self.state_lock`
get_status_enter ==
    /\ status_call.pc = "idle"
    /\ state_lock = None
    /\ state_lock' = "status"
    /\ status_call' = [status_call EXCEPT !.pc = "locked"]
    /\ UNCHANGED <<srvVars, histVars, auxVars, light_running, connected,
                   light_socket, current_state, previous_state, state_changes,
                   communication_lock, sync_semaphore, inbox, reports, lpc,
                   command, new_state, mode, state_idx, slices, gate, held,
                   dwells, cmdsDelivered, emAt, changeLog, kinds>>

\* get_status: 'state': self.current_state.name
get_status_state ==
    /\ status_call.pc = "locked"
    /\ status_call' = [status_call EXCEPT !.pc = "read", !.state = current_state]
    /\ UNCHANGED <<srvVars, histVars, auxVars, light_running, connected,
                   light_socket, current_state, previous_state, state_changes,
                   state_lock, communication_lock, sync_semaphore, inbox,
                   reports, lpc, command, new_state, mode, state_idx, slices,
                   gate, held, dwells, cmdsDelivered, emAt, changeLog, kinds>>

\* get_status: 'state_changes': self.state_changes
get_status_changes ==
    /\ status_call.pc = "read"
    /\ status_call' = [status_call EXCEPT !.pc = "return",
                                          !.state_changes = state_changes]
    /\ UNCHANGED <<srvVars, histVars, auxVars, light_running, connected,
                   light_socket, current_state, previous_state, state_changes,
                   state_lock, communication_lock, sync_semaphore, inbox,
                   reports, lpc, command, new_state, mode, state_idx, slices,
                   gate, held, dwells, cmdsDelivered, emAt, changeLog, kinds>>

\* get_status: return the dict and leave `with self.state_lock`
get_status_return ==
    /\ status_call.pc = "return"
    /\ state_lock' = IF state_lock = "status" THEN None ELSE state_lock
    /\ status_call' = [status_call EXCEPT !.pc = "idle"]
    /\ UNCHANGED <<srvVars, histVars, auxVars, light_running, connected,
                   light_socket, current_state, previous_state, state_changes,
                   communication_lock, sync_semaphore, inbox, reports, lpc,
                   command, new_state, mode, state_idx, slices, gate, held,
                   dwells, cmdsDelivered, emAt, changeLog, kinds>>

\* Two threads call change_state with any state while a third calls
\* get_status, on an agent that was not started (as the unit tests do).
NextGetStatus ==
    \/ /\ Len(changeLog) < MaxCallChanges
       /\ \E t \in LightThreads, state \in TrafficLightState : CallChange(t, state)
    \/ \E t \in LightThreads : change_state_enter(t)
    \/ \E t \in LightThreads : change_state_current(t)
    \/ \E t \in LightThreads : change_state_count(t)
    \/ \E t \in LightThreads : send_state_to_server(t)
    \/ get_status_enter
    \/ get_status_state
    \/ get_status_changes
    \/ get_status_return

SpecGetStatus == Init /\ [][NextGetStatus]_vars

\* C26: whatever the interleaving of change_state and get_status calls,
\* current_state is RED, YELLOW or GREEN; whenever no change is under way
\* state_changes is the number of calls that changed the state (and returned
\* True); and the state and state_changes of a get_status result are the
\* agent's values at the instant the result is returned.
C26_StateAndStatusConsistent ==
    /\ current_state \in TrafficLightState
    /\ state_lock \notin LightThreads =>
          /\ state_changes = Len(changeLog)
          /\ changeLog # <<>> => current_state = changeLog[Len(changeLog)]
    /\ status_call.pc = "return" =>
          /\ status_call.state = current_state
          /\ status_call.state_changes = state_changes
          /\ state_changes = Len(changeLog)

\* a status of (GREEN, 2 changes) is about to be returned while both other
\* threads wait for state_lock with a change to make
C26_Witness ==
    /\ status_call = [pc |-> "return", state |-> "GREEN", state_changes |-> 2]
    /\ \A t \in LightThreads : lpc[t] = "cs_enter" /\ new_state[t] # current_state
    /\ changeLog = <<"YELLOW", "GREEN">>

\* ---------------------------------------------------------------------
\* Emergency mode against everything else the coordinator does
\* ---------------------------------------------------------------------
NextEmergencyMode ==
    \/ StartServer
    \/ Accept("c1")
    \/ /\ MsgsLeft(MaxModeMsgs)
       /\ \E m \in StatusMsgs : Process("c1", m)
    \/ HandlerSteps
    \/ RecvEnd("c1")
    \/ Finally("c1")
    \/ Close("c1")
    \/ WorkerSteps
    \/ /\ callsMade < MaxModeCalls
       /\ \E target \in {None, "Centro"} : EmergencyOverride(target, "RED")
    \/ EmergencyCount
    \/ EmergencySend
    \/ Tick(MONITOR_SLEEP)

SpecEmergencyMode == Init /\ [][NextEmergencyMode]_vars

\* emergency_override has executed its first statement
C27_OverrideCalled ==
    \/ pc["ext"] \in {"em_count", "em_send"}
    \/ stats.emergency_overrides > 0

\* C27: once emergency_override has been called emergency_mode is true, and
\* no step of the coordinator (message handling, synchronization and its
\* completion, the liveness sweep, removal of sessions) sets it back to false.
C27_EmergencyModeSticks ==
    /\ [](C27_OverrideCalled => system_state.emergency_mode)
    /\ [][system_state.emergency_mode => system_state'.emergency_mode]_vars

\* emergency mode is still on after a synchronization completed and the
\* liveness sweep removed the only session
C27_Witness ==
    /\ system_state.emergency_mode
    /\ stats.emergency_overrides = 1
    /\ stats.sync_operations >= 1
    /\ ~system_state.sync_in_progress
    /\ registeredIds # {}
    /\ DOMAIN clients = {}
    /\ evictedHandles # {}

\* ---------------------------------------------------------------------
\* The coordinator's sync_semaphore and the broadcast of sync_request
\* ---------------------------------------------------------------------
\* broadcast_message: `with self.clients_lock:` (re-entrant)
broadcast_enter(t) ==
    /\ pc[t] = "trig_bcast"
    /\ LockFreeFor(t)
    /\ clients_lock' = [owner |-> t, count |-> clients_lock.count + 1]
    /\ pc' = [pc EXCEPT ![t] = "bcast_send"]
    /\ UNCHANGED <<agentVars, server_sync_semaphore, auxVars, running, threadsStarted, clients,
                   client_sockets, system_state, stats, active_locks, sock, peer,
                   outbox, client_id, tmp, inactive, wake, timers, call, now,
                   histVars>>

\* broadcast_message: send_to_client for every key of client_sockets, leave
\* the lock; then threading.Timer(5.0, self.complete_synchronization).start()
broadcast_send(t) ==
    /\ pc[t] = "bcast_send"
    /\ outbox' = Broadcast(outbox, OutMsg("sync_request", None, None))
    /\ clients_lock' = IF clients_lock.count <= 1
                       THEN [owner |-> None, count |-> 0]
                       ELSE [owner |-> t, count |-> clients_lock.count - 1]
    /\ timers' = Append(timers, now + SYNC_WINDOW)
    /\ windowBroadcasts' = windowBroadcasts + 1
    /\ Return(t)
    /\ UNCHANGED <<agentVars, server_sync_semaphore, auxVars, running, threadsStarted, clients,
                   client_sockets, system_state, stats, active_locks, sock, peer,
                   client_id, tmp, inactive, call, now, delivered, callsMade,
                   regConn, registeredIds, removedIds, evictedHandles, eoLast>>

\* server.sync_semaphore.acquire(blocking=False) by an outside caller
semaphore_acquire ==
    /\ pc["ext"] = "idle"
    /\ server_sync_semaphore > 0
    /\ server_sync_semaphore' = server_sync_semaphore - 1
    /\ pc' = [pc EXCEPT !["ext"] = "permit"]
    /\ UNCHANGED <<agentVars, auxVars, running, threadsStarted, clients, client_sockets,
                   system_state, stats, clients_lock, active_locks, sock, peer,
                   outbox, client_id, tmp, inactive, wake, timers, call, now,
                   histVars>>

\* server.sync_semaphore.release() by the caller that took the permit
semaphore_release ==
    /\ pc["ext"] = "permit"
    /\ server_sync_semaphore' = server_sync_semaphore + 1
    /\ pc' = [pc EXCEPT !["ext"] = "idle"]
    /\ UNCHANGED <<agentVars, auxVars, running, threadsStarted, clients, client_sockets,
                   system_state, stats, clients_lock, active_locks, sock, peer,
                   outbox, client_id, tmp, inactive, wake, timers, call, now,
                   histVars>>

\* Sessions register and report, synchronization is triggered by reports and
\* by the periodic thread, and an outside caller takes and returns a permit.
NextFanOut ==
    \/ StartServer
    \/ \E c \in Conns : Accept(c)
    \/ /\ MsgsLeft(MaxFanOutMsgs)
       /\ \E c \in Conns : \E m \in {x \in OwnMsgs(c) : x.intersection = "Centro"
                                        /\ x.type # "heartbeat"} :
             Process(c, m)
    \/ HandlerSteps
    \/ \E t \in Triggerers : TrigCheck(t)
    \/ \E t \in Triggerers : TrigSet(t)
    \/ \E t \in Triggerers : broadcast_enter(t)
    \/ \E t \in Triggerers : broadcast_send(t)
    \/ \E i \in DOMAIN timers : TimerFire(i)
    \/ PeriodicWake
    \/ MonitorScan
    \/ \E i \in IDs : MonitorRemove(i)
    \/ MonitorLoop
    \/ semaphore_acquire
    \/ semaphore_release
    \/ Tick(MONITOR_SLEEP)

SpecFanOut == Init /\ [][NextFanOut]_vars

\* C28: while a thread is inside broadcast_message sending to the sessions,
\* permits of sync_semaphore are held for the sessions it is sending to.
C28_BroadcastHoldsPermits ==
    \A t \in Triggerers :
        (pc[t] = "bcast_send" /\ DOMAIN client_sockets # {}) =>
            MAX_SEMAPHORES - server_sync_semaphore >= 1

\* ---------------------------------------------------------------------
\* The sync window: entering SyncInFlight and leaving it
\* ---------------------------------------------------------------------
\* trigger_synchronization sets sync_in_progress; windows are opened only as
\* long as the clock of the model can reach their end
WindowSet(t) ==
    /\ now + SYNC_WINDOW <= MaxTime
    /\ TrigSet(t)

\* a step of thread t on its way through trigger_synchronization, and the
\* release of clients_lock by a handler
WindowStep(t) ==
    \/ TrigCheck(t)
    \/ WindowSet(t)
    \/ TrigBroadcast(t)
    \/ t \in Conns /\ (CountRead(t) \/ CountWrite(t))

\* the sleeping threads wake up and go back to sleep
SleeperStep ==
    \/ PeriodicWake
    \/ MonitorScan
    \/ \E i \in IDs : MonitorRemove(i)
    \/ MonitorLoop

NextWindow ==
    \/ StartServer
    \/ Accept("c1")
    \/ /\ MsgsLeft(MaxWindowMsgs)
       /\ \E m \in {x \in StatusMsgs : x.intersection = "Centro"} : Process("c1", m)
    \/ HandlerSteps
    \/ \E t \in Triggerers : TrigCheck(t)
    \/ \E t \in Triggerers : WindowSet(t)
    \/ \E t \in Triggerers : TrigBroadcast(t)
    \/ \E i \in DOMAIN timers : TimerFire(i)
    \/ SleeperStep
    \/ /\ callsMade < MaxWindowCalls
       /\ threadsStarted
       /\ ExtTrigger
    \/ Tick(MONITOR_SLEEP)

\* Every thread of the coordinator is scheduled, a threading.Timer fires at
\* its deadline, and time passes.
FairWindow ==
    /\ \A t \in {"c1", "periodic", "ext"} : WF_vars(WindowStep(t))
    /\ WF_vars(SleeperStep)
    /\ WF_vars(\E i \in DOMAIN timers : TimerFire(i))
    /\ WF_vars(Tick(MONITOR_SLEEP))

SpecWindow == Init /\ [][NextWindow]_vars /\ FairWindow

\* the sync_request messages a broadcast adds for the sessions on connection c
C29_Added(c) ==
    Repeat(OutMsg("sync_request", None, None),
           Cardinality({i \in DOMAIN client_sockets : client_sockets[i] = c}))

\* C29: the step that sets sync_in_progress stamps last_sync with the time of
\* that step; the thread that set it then sends a sync_request to every
\* session registered (on an open connection) when it broadcasts; and
\* sync_in_progress always becomes false again.
C29_WindowOpensAndCloses ==
    /\ [][(~system_state.sync_in_progress /\ system_state'.sync_in_progress)
             => system_state'.last_sync = now']_vars
    /\ [][\A t \in Triggerers :
             (pc[t] = "trig_bcast" /\ pc'[t] # "trig_bcast") =>
                \A c \in Conns :
                   sock[c] = "open" => outbox'[c] = outbox[c] \o C29_Added(c)]_vars
    /\ \A t \in Triggerers : pc[t] = "trig_bcast" ~> pc[t] # "trig_bcast"
    /\ system_state.sync_in_progress ~> ~system_state.sync_in_progress

\* a window opened by a state report is open, its sync_request delivered to
\* the registered session, its timer pending
C29_Witness ==
    /\ system_state.sync_in_progress
    /\ system_state.last_sync = now
    /\ now > 0
    /\ "A1" \in DOMAIN client_sockets
    /\ Len(outbox["c1"]) > 0
    /\ outbox["c1"][Len(outbox["c1"])].type = "sync_request"
    /\ Len(timers) = 1
    /\ pc["c1"] = "recv"

\* the transitions of the normal cycle
C30_CycleSteps ==
    {<<"RED", "GREEN">>, <<"GREEN", "YELLOW">>, <<"YELLOW", "RED">>}

\* C30: with no command delivered, every change of current_state is
\* RED -> GREEN, GREEN -> YELLOW or YELLOW -> RED.
C30_OnlyCycleTransitions ==
    [][current_state' # current_state =>
          <<current_state, current_state'>> \in C30_CycleSteps]_vars

\* the cycle loop has gone once round and changed to GREEN again
C30_Witness ==
    /\ cmdsDelivered = 0
    /\ changeLog = <<"GREEN", "YELLOW", "RED", "GREEN">>
    /\ previous_state = "RED"
    /\ current_state = "GREEN"

\* ---------------------------------------------------------------------
\* The emergency override and the cycle that follows it
\* ---------------------------------------------------------------------
\* emergency overrides with a state the agent knows
OverrideCommands == [type : {"emergency_override"}, state : {"GREEN", "RED"}]

NextOverride ==
    \/ LightStart(TRUE)
    \/ /\ cmdsDelivered < MaxOverrideCmds
       /\ \E cmd \in OverrideCommands : DeliverCommand(cmd)
    \/ \E t \in LightThreads : RecvBegin(t)
    \/ \E t \in LightThreads : RecvReturn(t)
    \/ \E t \in LightThreads : LoopTop(t)
    \/ /\ state_changes < MaxOverrideChanges
       /\ CycleFor
    \/ change_state("cycle")
    \/ send_state_to_server("cycle")
    \/ DwellSleep(SliceStep)
    \/ DwellEnd
    \/ handle_emergency_override
    \/ EmergencySleep
    \/ handle_server_command
    \/ CommSleep

SpecOverride == Init /\ [][NextOverride]_vars

\* C31: during the emergency hold the cycle loop applies nothing; the first
\* state it applies after the hold is RED; and from there it applies the
\* states of the cycle in their order, RED, GREEN, YELLOW.
C31_CycleResumesFromRed ==
    [][ /\ lpc["cycle"] = "em_sleep" =>
              /\ current_state' = current_state
              /\ lpc'["cycle"] \in {"em_sleep", "top"}
        /\ (mode["cycle"] = "emergency" /\ mode'["cycle"] # "emergency") =>
              /\ lpc'["cycle"] = "cs_enter"
              /\ new_state'["cycle"] = "RED"
        /\ (lpc["cycle"] = "for" /\ lpc'["cycle"] = "cs_enter") =>
              /\ new_state'["cycle"] = CycleStates[state_idx]
              /\ state_idx > 1 =>
                    new_state["cycle"] = CycleStates[state_idx - 1]
      ]_vars

\* the override to GREEN was applied to the fresh agent and held, and the
\* cycle went on with RED, GREEN, YELLOW
C31_Witness ==
    /\ cmdsDelivered = 1
    /\ changeLog = <<"GREEN", "RED", "GREEN", "YELLOW">>
    /\ mode["cycle"] = "cycle"

\* ---------------------------------------------------------------------
\* A sync_request and the thread that reads it
\* ---------------------------------------------------------------------
\* C32: a thread of a connected agent that has read a sync_request and is done
\* with handling it has sent a state_update for it, whichever thread it is.
C32_SyncRequestAnswered ==
    \A t \in LightThreads :
        ( /\ connected
          /\ light_running
          /\ command[t].type = "sync_request"
          /\ lpc[t] \notin {"handle", "sync_send"} )
        => \E i \in DOMAIN kinds : kinds[i] = "sync"

\* ---------------------------------------------------------------------
\* Messages that leave the registry alone
\* ---------------------------------------------------------------------
\* one connection registers A1; the other one sends state updates,
\* heartbeats and messages of unknown type for A1 and for A2, which never
\* registers
FrameMsgs(c) ==
    IF c = "c1"
    THEN {m \in RegisterMsgs : m.light_id = "A1" /\ m.intersection = "Centro"}
    ELSE StateUpdateMsgs \cup HeartbeatMsgs \cup UnknownMsgs

NextFrame ==
    \/ StartServer
    \/ \E c \in Conns : Accept(c)
    \/ /\ MsgsLeft(MaxFrameMsgs)
       /\ \E c \in Conns : \E m \in FrameMsgs(c) : Process(c, m)
    \/ HandlerSteps
    \/ WorkerSteps
    \/ Tick(MONITOR_SLEEP)

SpecFrame == Init /\ [][NextFrame]_vars

\* the session of id i is as before, but for its last_heartbeat
C33_OnlyHeartbeatOf(i) ==
    /\ DOMAIN clients' = DOMAIN clients
    /\ \A j \in DOMAIN clients \ {i} : clients'[j] = clients[j]
    /\ clients'[i] =
          [clients[i] EXCEPT !.last_heartbeat = clients'[i].last_heartbeat]

\* C33: processing a state_update or heartbeat for an id that is not in the
\* registry, or a message of unknown type, leaves the registry and the system
\* state as they are and starts no synchronization; processing a heartbeat
\* for a registered id changes nothing but that session's last_heartbeat.
C33_WeakMessagesFrame ==
    [][ \A c \in Conns : \A m \in FrameMsgs(c) : Process(c, m) =>
          /\ ( \/ m.type \notin ClassifiedTypes
               \/ /\ m.type \in {"state_update", "heartbeat"}
                  /\ m.light_id \notin DOMAIN clients )
             => /\ clients' = clients
                /\ client_sockets' = client_sockets
                /\ system_state' = system_state
                /\ pc'[c] # "trig"
          /\ (m.type = "heartbeat" /\ m.light_id \in DOMAIN clients)
             => /\ C33_OnlyHeartbeatOf(m.light_id)
                /\ clients'[m.light_id].last_heartbeat = now
                /\ client_sockets' = client_sockets
                /\ system_state' = system_state
                /\ pc'[c] # "trig"
      ]_vars

\* the second connection has just processed a heartbeat for A1, registered
\* earlier over the first one, and before that messages for the unknown A2
C33_Witness ==
    /\ pc["c2"] = "count_read"
    /\ client_id["c2"] = "A1"
    /\ "A1" \in DOMAIN clients
    /\ clients["A1"].state_changes = 0
    /\ clients["A1"].last_heartbeat = now
    /\ now > 0
    /\ delivered = [classified |-> 3, other |-> 1, failed |-> 0]

\* ---------------------------------------------------------------------
\* The state change count of a session
\* ---------------------------------------------------------------------
\* C34: while an id stays in the registry, the state_changes reported for it
\* never decreases, whatever register, state_update and heartbeat messages
\* are processed for it.
C34_StateChangesMonotonic ==
    [][ \A id \in DOMAIN clients \cap DOMAIN clients' :
            clients'[id].state_changes >= clients[id].state_changes ]_vars

\* ---------------------------------------------------------------------
\* The state a message carries
\* ---------------------------------------------------------------------
\* register and state_update messages whose 'state' is any JSON string, a
\* name of TrafficLightState or not
AnyStateMsgs ==
    {[type |-> t, light_id |-> "A1", intersection |-> "Centro", state |-> s] :
        t \in {"register", "state_update"}, s \in {"RED", "GREEN", "PURPLE"}}

NextStates ==
    \/ StartServer
    \/ \E c \in Conns : Accept(c)
    \/ /\ MsgsLeft(MaxStateMsgs)
       /\ \E c \in Conns : \E m \in AnyStateMsgs : Process(c, m)
    \/ HandlerSteps

SpecStates == Init /\ [][NextStates]_vars

\* C35: the state of every session in the registry is one of RED, YELLOW,
\* GREEN, whatever state the register and state_update messages carry.
C35_SessionStateValid ==
    \A id \in DOMAIN clients : clients[id].state \in TrafficLightState

\* ---------------------------------------------------------------------
\* The monitor's scan and its removals
\* ---------------------------------------------------------------------
\* C36: a session the monitor removes is stale (last heartbeat more than 60
\* seconds ago) at the moment of the removal.
C36_EvictsOnlyStale ==
    [][ \A i \in IDs :
          (MonitorRemove(i) /\ i \in DOMAIN clients) => IsInactive(clients[i])
      ]_vars

\* ---------------------------------------------------------------------
\* The session a closing connection removes
\* ---------------------------------------------------------------------
\* C37: when a connection closes, its handler removes no session that was
\* registered, or registered again, over another connection that is still
\* open.
C37_DisconnectRemovesOwnSession ==
    [][ \A c \in Conns : Finally(c) =>
          \A id \in DOMAIN clients \ DOMAIN clients' :
              \/ clients[id].socket = c
              \/ sock[clients[id].socket] # "open"
      ]_vars

\* ---------------------------------------------------------------------
\* The three locks of one agent
\* ---------------------------------------------------------------------
\* every thread that runs code of the agent: its two loops, and the callers
\* of stop, change_state and get_status
LightActors == LightThreads \cup {"stop", "caller", "status"}

\* the steps of one thread
ActorStep(t) ==
    CASE t = "cycle" ->
            \/ LoopTop(t) \/ RecvBegin(t) \/ RecvReturn(t) \/ CycleFor
            \/ change_state(t) \/ send_state_to_server(t)
            \/ DwellSleep(SliceStep) \/ DwellEnd
            \/ handle_emergency_override \/ EmergencySleep
      [] t = "comm" ->
            \/ LoopTop(t) \/ RecvBegin(t) \/ RecvReturn(t)
            \/ handle_server_command \/ SyncSend \/ CommSleep
            \/ change_state(t) \/ send_state_to_server(t)
      [] t = "caller" -> change_state(t) \/ send_state_to_server(t)
      [] t = "stop" -> LightDisconnect
      [] OTHER ->
            \/ get_status_enter \/ get_status_state
            \/ get_status_changes \/ get_status_return

\* the thread is inside a call or a loop of the agent
Active(t) ==
    CASE t \in LightThreads -> lpc[t] \notin {"idle", "done"}
      [] t \in {"caller", "stop"} -> lpc[t] # "idle"
      [] OTHER -> TRUE

\* the lock whose `with` statement the thread stands at
LockWanted(t) ==
    CASE t = "status" ->
            IF status_call.pc = "idle" THEN "state_lock" ELSE None
      [] lpc[t] = "cs_enter" -> "state_lock"
      [] lpc[t] \in {"cs_send", "sync_send"} /\ connected -> "communication_lock"
      [] lpc[t] \in {"recv", "disconnect"} -> "communication_lock"
      [] t = "cycle" /\ lpc[t] = "for" /\ light_running
                     /\ state_idx <= Len(CycleStates) -> "sync_semaphore"
      [] OTHER -> None

\* the thread that holds the lock, None when it is free
LockHolder(l) ==
    CASE l = "state_lock" -> state_lock
      [] l = "communication_lock" -> communication_lock
      [] l = "sync_semaphore" -> IF sync_semaphore = 0 THEN gate ELSE None
      [] OTHER -> None

\* the thread t waits for, None when t does not wait
BlockedBy(t) == IF LockWanted(t) = None THEN None ELSE LockHolder(LockWanted(t))

NextLightLocks ==
    \/ LightStart(TRUE)
    \/ LightStop
    \/ LightDisconnect
    \/ \E t \in LightThreads : RecvBegin(t)
    \/ \E t \in LightThreads : RecvReturn(t)
    \/ \E t \in LightThreads : LoopTop(t)
    \/ /\ state_changes < MaxLightLockChanges
       /\ CycleFor
    \/ /\ state_changes < MaxLightLockChanges
       /\ CallChange("caller", "YELLOW")
    \/ \E t \in LightThreads \cup {"caller"} : change_state(t)
    \/ \E t \in LightThreads \cup {"caller"} : send_state_to_server(t)
    \/ DwellSleep(get_state_duration("GREEN") * 10)
    \/ DwellEnd
    \/ CommSleep
    \/ get_status_enter
    \/ get_status_state
    \/ get_status_changes
    \/ get_status_return

SpecLightLocks == Init /\ [][NextLightLocks]_vars

\* t waits, for a thread that waits, and so on for n threads
RECURSIVE C38_WaitChain(_, _)
C38_WaitChain(t, n) ==
    IF BlockedBy(t) = None THEN FALSE
    ELSE IF n = 0 THEN TRUE
    ELSE C38_WaitChain(BlockedBy(t), n - 1)

NextHalt ==
    \/ StartServer
    \/ Accept("c1")
    \/ /\ MsgsLeft(MaxHaltMsgs)
       /\ \E m \in {x \in RegisterMsgs : x.light_id = "A1"
                                          /\ x.intersection = "Centro"} :
             Process("c1", m)
    \/ HandlerSteps
    \/ WorkerSteps
    \/ StopServer
    \/ StopClose
    \/ Tick(MONITOR_SLEEP)

SpecHalt == Init /\ [][NextHalt]_vars

\* C39: once stop_server has set running to false, sync_in_progress is not
\* set to true, no sync_request is broadcast and the monitor evicts no
\* session.
C39_NoWorkAfterStop ==
    [][ pc["stopper"] # "idle" =>
          /\ ~system_state.sync_in_progress => ~system_state'.sync_in_progress
          /\ \A t \in Triggerers : ~TrigBroadcast(t)
          /\ \A i \in DOMAIN clients : ~MonitorRemove(i)
      ]_vars

\* ---------------------------------------------------------------------
\* A start() that cannot connect
\* ---------------------------------------------------------------------
\* C40: after a start() whose connection attempt failed the agent is
\* stopped: running is false, neither thread was started, and a further
\* start() would attempt the connection.
C40_FailedStartLeavesStopped ==
    light_socket = "failed" =>
        /\ ~light_running
        /\ \A t \in LightThreads : lpc[t] = "idle"
        /\ ENABLED LightStart(TRUE)

====
